---- MODULE Spec2Model ----
(***************************************************************************)
(* Model of the WinRT video-capture stream sink                            *)
(* (webrtc/modules/video_capture/windows/video_capture_sink_winrt.cc):     *)
(* VideoCaptureStreamSinkWinRT with its sample queue, its state x          *)
(* operation matrix, its serial work queue and the worker that executes    *)
(* OnDispatchWorkItem, together with the callers of its public methods.    *)
(***************************************************************************)
EXTENDS Integers, Sequences, FiniteSets, TLC

(* ---- bounds of the model ---- *)
MaxSamples == 2
MaxTypes == 2
MaxCtl == 3
MaxFlush == 1
MaxShutdown == 2
MaxMsCalls == 2
MaxFaults == 1
MaxGetEvent == 1
MaxPuts == 1
MaxProxyCalls == 3

(* ---- enum State (rows of ValidStateMatrix) ---- *)
State_TypeNotSet == 0
State_Ready == 1
State_Started == 2
State_Paused == 3
State_Stopped == 4
State_Count == 5

(* ---- enum StreamOperation (columns of ValidStateMatrix) ---- *)
OpSetMediaType == 0
OpStart == 1
OpRestart == 2
OpPause == 3
OpStop == 4
OpProcessSample == 5
Op_Count == 6

States == 0 .. (State_Count - 1)
Ops == 0 .. (Op_Count - 1)

(* ---- HRESULT values ---- *)
S_OK == "S_OK"
E_INVALIDARG == "E_INVALIDARG"
MF_E_SHUTDOWN == "MF_E_SHUTDOWN"
MF_E_NOT_INITIALIZED == "MF_E_NOT_INITIALIZED"
MF_E_ALREADY_INITIALIZED == "MF_E_ALREADY_INITIALIZED"
MF_E_INVALIDREQUEST == "MF_E_INVALIDREQUEST"
MF_E_INVALIDTYPE == "MF_E_INVALIDTYPE"
MF_E_ATTRIBUTENOTFOUND == "MF_E_ATTRIBUTENOTFOUND"
MF_E_INVALID_WORKQUEUE == "MF_E_INVALID_WORKQUEUE"
MF_E_INVALIDSTREAMNUMBER == "MF_E_INVALIDSTREAMNUMBER"
MF_E_STREAMSINK_EXISTS == "MF_E_STREAMSINK_EXISTS"
MF_E_INVALID_STATE_TRANSITION == "MF_E_INVALID_STATE_TRANSITION"
E_UNEXPECTED == "E_UNEXPECTED"
E_FAIL == "E_FAIL"
E_OUTOFMEMORY == "E_OUTOFMEMORY"

SUCCEEDED(hr) == hr = S_OK

(* ---- media event types ---- *)
MEStreamSinkStarted == "MEStreamSinkStarted"
MEStreamSinkStopped == "MEStreamSinkStopped"
MEStreamSinkPaused == "MEStreamSinkPaused"
MEStreamSinkRequestSample == "MEStreamSinkRequestSample"
MEError == "MEError"

(* ---- media types: major type, subtype (NoSubtype: attribute absent) and
        a frame size that may change between two types of one subtype ---- *)
MFMediaType_Video == "Video"
MFMediaType_Audio == "Audio"
NoSubtype == "none"
GUID_NULL == "GUID_NULL"
Null == [major |-> "null", sub |-> "null", dim |-> 0]
MediaType(m, s, d) == [major |-> m, sub |-> s, dim |-> d]
MediaTypes ==
  { MediaType(MFMediaType_Video, "NV12", 1),
    MediaType(MFMediaType_Video, "NV12", 2),
    MediaType(MFMediaType_Video, "YUY2", 1),
    MediaType(MFMediaType_Audio, "NV12", 1),
    MediaType(MFMediaType_Video, NoSubtype, 1) }

PRESENTATION_CURRENT_POSITION == "PRESENTATION_CURRENT_POSITION"
StartTimes == {PRESENTATION_CURRENT_POSITION, "t1"}

(* ---- call budgets: every behaviour runs under one of them, fixed at
        construction: how many samples, media types, lifecycle operations
        and flushes are accepted, how often Shutdown is called, and which
        media types and start times the callers pass ---- *)
(* the work queue takes every put of the behaviour *)
NoPutFault == MaxSamples + MaxTypes + MaxCtl + 1

Budget(s, t, c, f, sh, mts, sts) ==
  [samples |-> s, types |-> t, ctl |-> c, flush |-> f, shut |-> sh,
   mediaTypes |-> mts, startTimes |-> sts, puts |-> NoPutFault]

OneType == { MediaType(MFMediaType_Video, "NV12", 1) }
TwoTypes == { MediaType(MFMediaType_Video, "NV12", 1),
              MediaType(MFMediaType_Video, "NV12", 2) }
OneStart == { PRESENTATION_CURRENT_POSITION }

Budgets ==
  { Budget(1, MaxTypes, 1, 0, 0, MediaTypes, StartTimes),
    Budget(MaxSamples, MaxTypes, 1, 0, 0, TwoTypes, OneStart),
    Budget(1, 1, MaxCtl, 0, 0, OneType, OneStart),
    Budget(MaxSamples, 1, 2, 0, 0, OneType, OneStart),
    Budget(MaxSamples, 1, 1, MaxFlush, 0, OneType, OneStart),
    Budget(1, 1, 2, MaxFlush, MaxShutdown, OneType, OneStart) }

(* the call budgets of the behaviours that start at the media sink *)
MediaSinkBudget(s, t, c, f, sh, mts, sts, ms, msh) ==
  [samples |-> s, types |-> t, ctl |-> c, flush |-> f, shut |-> sh,
   mediaTypes |-> mts, startTimes |-> sts, msCalls |-> ms, msShut |-> msh,
   puts |-> NoPutFault]

MediaSinkBudgets ==
  { MediaSinkBudget(1, 0, 1, 0, 1, OneType, OneStart,
                    {"SetPresentationClock"}, MaxShutdown),
    MediaSinkBudget(1, 0, 0, 0, 1, MediaTypes, OneStart,
                    {"AddStreamSink", "RemoveStreamSink",
                     "GetStreamSinkCount", "GetStreamSinkById"}, 1),
    MediaSinkBudget(1, 1, 1, 0, 0, OneType, OneStart,
                    {"OnClockStart", "OnClockStop", "OnClockPause",
                     "OnClockRestart"}, 1),
    MediaSinkBudget(1, 0, 1, 0, 1, OneType, OneStart,
                    {"RemoveStreamSink"}, 0),
    MediaSinkBudget(0, 0, 1, 0, 0, OneType, OneStart,
                    {"AddStreamSink", "OnClockStart", "OnClockStop"}, 0),
    MediaSinkBudget(0, 0, 0, 0, MaxShutdown, OneType, OneStart,
                    {"AddStreamSink", "RemoveStreamSink",
                     "GetStreamSinkById"}, 1) }

(* ---- the media sink: its one stream id, the clocks it is given and the
        threads that call its Shutdown ---- *)
GetStreamId == 0
StreamIds == {0, 1}
NoClock == "nullptr"
Clocks == {"clock1", "clock2"}
NoStream == "nullptr"
Stream == "stream"
NoCallback == "nullptr"
Callback == "callback"
MsCallers == {"m1", "m2"}

(* ---- threads that run ProcessSamplesFromQueue ---- *)
Worker == "worker"
Flusher == "flusher"
Threads == {Worker, Flusher}

VARIABLES
  state,                 \* _state
  isShutdown,            \* _isShutdown
  sampleQueue,           \* _sampleQueue: samples and media types, FIFO
  spCurrentType,         \* _spCurrentType
  guiCurrentSubtype,     \* _guiCurrentSubtype
  fGetStartTimeFromSample,
  startTime,             \* _startTime
  workQueue,             \* items put on the serial work queue _workQueueId
  lock,                  \* holder of _critSec across several steps
  pc,                    \* position of each thread
  spunkSample,           \* ProcessSamplesFromQueue: item popped, per thread
  fFlush,                \* ProcessSamplesFromQueue: argument, per thread
  fNeedMoreSamples,      \* ProcessSamplesFromQueue: result, per thread
  fProcessingSample,     \* ProcessSamplesFromQueue: local, per thread
  cur,                   \* the work item the worker executes or executed last
  out,                   \* everything handed out: events queued, samples to OnSample
  lastCall,              \* the last public call, its result and its effect
  calls,                 \* the public calls that returned S_OK, in order
  pushedType,            \* per accepted sample, _spCurrentType when it was pushed
  assertFailed,          \* an assert() of the source was violated
  nWork, nTypes, nCtl, nFlush, nShutdown,  \* counters that bound the model
  budget                 \* the call budget of this behaviour

VARIABLES
  msState,               \* media sink: constructed, initialized, failed, crashed
  msIsShutdown,          \* VideoCaptureMediaSinkWinRT::_isShutdown
  spStreamSink,          \* _spStreamSink
  spClock,               \* _spClock
  callback,              \* _callback
  llStartTime,           \* _llStartTime
  clockSinks,            \* the clocks that hold the media sink as state sink
  nOnShutdown,           \* how often _callback->OnShutdown was called
  nStreams,              \* how many stream sinks were constructed
  msPc,                  \* position of each caller of the media sink's Shutdown
  msLastCall,            \* the last call of the media sink and its result
  msClockCall,           \* the clock of the SetPresentationClock in progress
  nMs, nMsShutdown       \* counters that bound the model

VARIABLES
  getEvent,              \* the caller of GetEvent: position, result, events taken
  proxy,                 \* the proxy: _shutdown, _mediaSink, results of its calls
  critSec                \* the three _critSec: owner, depth, each thread's place

envVars == << getEvent, proxy, critSec >>

msVars == << msState, msIsShutdown, spStreamSink, spClock, callback,
             llStartTime, clockSinks, nOnShutdown, nStreams, msPc,
             msLastCall, msClockCall, nMs, nMsShutdown >>

(* what the stream sink's own operations leave alone *)
restVars == << msVars, envVars >>

vars == << state, isShutdown, sampleQueue, spCurrentType, guiCurrentSubtype,
           fGetStartTimeFromSample, startTime, workQueue, lock, pc,
           spunkSample, fFlush, fNeedMoreSamples, fProcessingSample, cur,
           out, lastCall, calls, pushedType, assertFailed, nWork, nTypes,
           nCtl, nFlush, nShutdown, budget, msVars, envVars >>

sinkVars == << state, isShutdown, sampleQueue, spCurrentType,
               guiCurrentSubtype, fGetStartTimeFromSample, startTime >>
procVars == << spunkSample, fFlush, fNeedMoreSamples, fProcessingSample >>
countVars == << nWork, nTypes, nCtl, nFlush, nShutdown, budget >>
callVars == << lastCall, calls >>
streamVars == << sinkVars, workQueue, lock, pc, procVars, cur, out, callVars,
                 pushedType, assertFailed, countVars >>

NoMsCall == [call |-> "None", arg |-> 0, hr |-> S_OK]

(* no SetPresentationClock is between its two calls of the clocks *)
NoClockCall == "none"

(* the result of a call that did not return: the process faulted in it *)
Fault == "fault"

NoItem == [kind |-> "none", id |-> 0, buf |-> FALSE, mt |-> Null]
SampleItem(i, b) == [kind |-> "sample", id |-> i, buf |-> b, mt |-> Null]
TypeItem(t) == [kind |-> "type", id |-> 0, buf |-> FALSE, mt |-> t]

NoWork == [op |-> Op_Count, tag |-> 0, evs |-> << >>, n |-> 0,
           empty0 |-> FALSE, hr |-> S_OK]
NoCall == [call |-> "None", hr |-> S_OK, st0 |-> State_TypeNotSet,
           st1 |-> State_TypeNotSet, dq |-> << >>, dwq |-> << >>,
           tag |-> 0, shut0 |-> FALSE]

(* ---- the state x operation matrix ---- *)
ValidStateMatrixPauseWhenStopped ==
  << << TRUE, FALSE, FALSE, FALSE, FALSE, FALSE >>,
     << TRUE, TRUE,  FALSE, TRUE,  TRUE,  FALSE >>,
     << TRUE, TRUE,  FALSE, TRUE,  TRUE,  TRUE  >>,
     << TRUE, TRUE,  TRUE,  TRUE,  TRUE,  TRUE  >>,
     << TRUE, TRUE,  FALSE, TRUE,  TRUE,  FALSE >> >>

ValidStateMatrix ==
  << << TRUE, FALSE, FALSE, FALSE, FALSE, FALSE >>,   \* NotSet
     << TRUE, TRUE,  FALSE, TRUE,  TRUE,  FALSE >>,   \* Ready
     << TRUE, TRUE,  FALSE, TRUE,  TRUE,  TRUE  >>,   \* Start
     << TRUE, TRUE,  TRUE,  TRUE,  TRUE,  TRUE  >>,   \* Pause
     << TRUE, TRUE,  FALSE, FALSE, TRUE,  FALSE >> >> \* Stop

ValidateOperation(st, op) ==
  IF ValidStateMatrix[st + 1][op + 1] THEN S_OK
  ELSE IF st = State_TypeNotSet THEN MF_E_NOT_INITIALIZED
  ELSE MF_E_INVALIDREQUEST

(* the media sink that owns the stream sink, after AddStreamSink without a
   media type *)
MediaSinkWithStream ==
  /\ msState = "initialized"
  /\ msIsShutdown = FALSE
  /\ spStreamSink = Stream
  /\ spClock = NoClock
  /\ callback = Callback
  /\ llStartTime = "0"
  /\ clockSinks = {}
  /\ nOnShutdown = 0
  /\ nStreams = 1
  /\ msPc = [t \in MsCallers |-> "idle"]
  /\ msLastCall = NoMsCall
  /\ msClockCall = NoClockCall
  /\ nMs = 0
  /\ nMsShutdown = 0

(* no GetEvent has been called *)
NoGetEvent == [pc |-> "idle", hr |-> S_OK, taken |-> 0, calls |-> 0]

(* VideoCaptureMediaSinkProxyWinRT after its constructor: not shut down, no
   media sink; no call of it has returned *)
NoMediaSink == "nullptr"
MediaSink == "mediaSink"
NoProxy == [shutdown |-> FALSE, mediaSink |-> NoMediaSink, calls |-> << >>,
            ext |-> "None"]

(* the _critSec of the proxy, of the media sink and of the stream sink, and
   the threads that enter them: two callers and the work queue's thread *)
ProxyLock == "proxy"
MediaSinkLock == "mediaSink"
StreamSinkLock == "streamSink"
CritSecs == {ProxyLock, MediaSinkLock, StreamSinkLock}
NoOwner == "none"
CritSecThreads == {"c1", "c2", Worker}
NoCritSec ==
  [owner |-> [l \in CritSecs |-> NoOwner],
   depth |-> [l \in CritSecs |-> 0],
   at |-> [t \in CritSecThreads |-> [op |-> "None", i |-> 0]]]

(* the stream sink after its constructor and Initialize *)
StreamSinkInit ==
  /\ state = State_TypeNotSet
  /\ isShutdown = FALSE
  /\ sampleQueue = << >>
  /\ spCurrentType = Null
  /\ guiCurrentSubtype = GUID_NULL
  /\ fGetStartTimeFromSample = FALSE
  /\ startTime = "0"
  /\ workQueue = << >>
  /\ lock = "none"
  /\ pc = [t \in Threads |-> "idle"]
  /\ spunkSample = [t \in Threads |-> NoItem]
  /\ fFlush = [t \in Threads |-> FALSE]
  /\ fNeedMoreSamples = [t \in Threads |-> FALSE]
  /\ fProcessingSample = [t \in Threads |-> FALSE]
  /\ cur = NoWork
  /\ out = << >>
  /\ lastCall = NoCall
  /\ calls = << >>
  /\ pushedType = << >>
  /\ assertFailed = FALSE
  /\ nWork = 0
  /\ nTypes = 0
  /\ nCtl = 0
  /\ nFlush = 0
  /\ nShutdown = 0
  /\ getEvent = NoGetEvent
  /\ proxy = NoProxy
  /\ critSec = NoCritSec

Init ==
  /\ StreamSinkInit
  /\ budget \in Budgets
  /\ MediaSinkWithStream

(* ---- QueueAsyncOperation: MFPutWorkItem2 on the serial work queue.  After
        Shutdown has unlocked the work queue the put is refused. ---- *)
QueueAsyncOperationResult(shut) ==
  IF shut THEN MF_E_INVALID_WORKQUEUE
  ELSE IF nWork >= budget.puts THEN E_OUTOFMEMORY
  ELSE S_OK

WorkItem(op) == [op |-> op, tag |-> nWork + 1]

(* the record of a public call: its result, _state before and after, the
   items it appended to _sampleQueue, the operations it put on the work
   queue, and the tag of the work item it put, 0 if it put none *)
Call(name, hr) ==
  [call |-> name, hr |-> hr, st0 |-> state, st1 |-> state',
   dq |-> SubSeq(sampleQueue', Len(sampleQueue) + 1, Len(sampleQueue')),
   dwq |-> [i \in 1 .. (Len(workQueue') - Len(workQueue)) |->
              workQueue'[Len(workQueue) + i].op],
   tag |-> IF Len(workQueue') > Len(workQueue) THEN nWork' ELSE 0,
   shut0 |-> isShutdown]

(* the samples handed to OnSample so far *)
Delivered == { out[i].id : i \in { j \in DOMAIN out : out[j].k = "sample" } }

(* a call that returned S_OK, with the sample it pushed (0 if none), the
   work item it put, and the samples handed to OnSample before it returned *)
Accepted(name, sample) ==
  [call |-> name, id |-> sample,
   tag |-> IF Len(workQueue') > Len(workQueue) THEN nWork' ELSE 0,
   st0 |-> state, seen |-> Delivered]

Returns(name, hr, sample) ==
  /\ lastCall' = Call(name, hr)
  /\ calls' = IF SUCCEEDED(hr) THEN Append(calls, Accepted(name, sample))
              ELSE calls

(* ---- IMFStreamSink::ProcessSample: a sample arrives from upstream ---- *)
ProcessSampleQueuesWorkAlways(st) == TRUE

ProcessSampleQueuesWork(st) == st # State_Paused

ProcessSample(pSample) ==
  /\ lock = "none"
  /\ Len(pushedType) < budget.samples
  /\ LET hrv == IF pSample = NoItem THEN E_INVALIDARG
                ELSE IF isShutdown THEN MF_E_SHUTDOWN
                ELSE ValidateOperation(state, OpProcessSample)
         hr == IF SUCCEEDED(hrv) /\ ProcessSampleQueuesWork(state)
               THEN QueueAsyncOperationResult(isShutdown) ELSE hrv
         put == SUCCEEDED(hr) /\ ProcessSampleQueuesWork(state)
     IN /\ sampleQueue' = IF SUCCEEDED(hrv) THEN Append(sampleQueue, pSample)
                          ELSE sampleQueue
        /\ pushedType' = IF SUCCEEDED(hrv)
                         THEN Append(pushedType, spCurrentType)
                         ELSE pushedType
        /\ workQueue' = IF put THEN Append(workQueue, WorkItem(OpProcessSample))
                        ELSE workQueue
        /\ nWork' = IF put THEN nWork + 1 ELSE nWork
        /\ UNCHANGED << state, isShutdown, spCurrentType, guiCurrentSubtype,
                        fGetStartTimeFromSample, startTime, lock, pc,
                        procVars, cur, out, assertFailed, nTypes, nCtl,
                        nFlush, nShutdown, budget >>
        /\ Returns("ProcessSample", hr, pSample.id)

(* ---- IMFMediaTypeHandler::IsMediaTypeSupported ---- *)
IsMediaTypeSupportedAnySubtype(pMediaType) ==
  IF isShutdown THEN MF_E_SHUTDOWN
  ELSE IF pMediaType.major # MFMediaType_Video THEN MF_E_INVALIDTYPE
  ELSE S_OK

IsMediaTypeSupported(pMediaType) ==
  IF isShutdown THEN MF_E_SHUTDOWN
  ELSE IF pMediaType.major # MFMediaType_Video THEN MF_E_INVALIDTYPE
  ELSE IF spCurrentType # Null
          /\ (pMediaType.sub = NoSubtype \/ pMediaType.sub # guiCurrentSubtype)
       THEN MF_E_INVALIDTYPE
  ELSE S_OK

(* ---- IMFMediaTypeHandler::SetCurrentMediaType ---- *)
SetCurrentMediaTypeCheckNoShutdown(pMediaType) ==
  IF pMediaType = Null THEN E_INVALIDARG
  ELSE IF ~SUCCEEDED(ValidateOperation(state, OpSetMediaType))
       THEN ValidateOperation(state, OpSetMediaType)
  ELSE S_OK

SetCurrentMediaTypeCheck(pMediaType) ==
  IF pMediaType = Null THEN E_INVALIDARG
  ELSE IF isShutdown THEN MF_E_SHUTDOWN
  ELSE IF ~SUCCEEDED(ValidateOperation(state, OpSetMediaType))
       THEN ValidateOperation(state, OpSetMediaType)
  ELSE IF state >= State_Ready THEN IsMediaTypeSupported(pMediaType)
  ELSE S_OK

FormatChangeQueuesWork(st) == TRUE

(* _state after the call: the first type that is set makes the sink ready *)
SetCurrentMediaTypeStateKept(st, hr) == st

SetCurrentMediaTypeState(st, hr) ==
  IF SUCCEEDED(hr) /\ st < State_Ready THEN State_Ready ELSE st

SetCurrentMediaType(pMediaType) ==
  /\ lock = "none"
  /\ nTypes < budget.types
  /\ LET hr0 == SetCurrentMediaTypeCheck(pMediaType)
         copied == SUCCEEDED(hr0)
         hr1 == IF copied /\ pMediaType.sub = NoSubtype
                THEN MF_E_ATTRIBUTENOTFOUND ELSE hr0
         change == SUCCEEDED(hr1) /\ state > State_Ready
         hr == IF change /\ FormatChangeQueuesWork(state)
               THEN QueueAsyncOperationResult(isShutdown) ELSE hr1
         put == SUCCEEDED(hr) /\ change /\ FormatChangeQueuesWork(state)
         st1 == SetCurrentMediaTypeState(state, hr1)
     IN /\ spCurrentType' = IF copied THEN pMediaType ELSE spCurrentType
        /\ guiCurrentSubtype' = IF SUCCEEDED(hr1) THEN pMediaType.sub
                                ELSE guiCurrentSubtype
        /\ state' = st1
        /\ sampleQueue' = IF change THEN Append(sampleQueue, TypeItem(pMediaType))
                          ELSE sampleQueue
        /\ workQueue' = IF put THEN Append(workQueue, WorkItem(OpSetMediaType))
                        ELSE workQueue
        /\ nWork' = IF put THEN nWork + 1 ELSE nWork
        /\ nTypes' = IF copied THEN nTypes + 1 ELSE nTypes
        /\ UNCHANGED << isShutdown, fGetStartTimeFromSample, startTime, lock,
                        pc, procVars, cur, out, pushedType, assertFailed,
                        nCtl, nFlush, nShutdown, budget >>
        /\ Returns("SetCurrentMediaType", hr, 0)

(* ---- Start, Stop, Pause, Restart: validate, set _state, queue the
        operation.  None of them tests _isShutdown; ValidateOperation
        asserts it. ---- *)
LifecycleStateAlways(st, hrv, newState) == newState

LifecycleState(st, hrv, newState) == IF SUCCEEDED(hrv) THEN newState ELSE st

Lifecycle(name, op, newState, getStart, newStartTime) ==
  /\ lock = "none"
  /\ nCtl < budget.ctl
  /\ LET hrv == ValidateOperation(state, op)
         hr == IF SUCCEEDED(hrv) THEN QueueAsyncOperationResult(isShutdown)
               ELSE hrv
         st1 == LifecycleState(state, hrv, newState)
     IN /\ assertFailed' = (assertFailed \/ isShutdown)
        /\ state' = st1
        /\ fGetStartTimeFromSample' =
             IF SUCCEEDED(hrv) THEN getStart ELSE fGetStartTimeFromSample
        /\ startTime' = IF SUCCEEDED(hrv) THEN newStartTime ELSE startTime
        /\ workQueue' = IF SUCCEEDED(hr) THEN Append(workQueue, WorkItem(op))
                        ELSE workQueue
        /\ nWork' = IF SUCCEEDED(hr) THEN nWork + 1 ELSE nWork
        /\ nCtl' = IF SUCCEEDED(hrv) THEN nCtl + 1 ELSE nCtl
        /\ UNCHANGED << isShutdown, sampleQueue, spCurrentType,
                        guiCurrentSubtype, lock, pc, procVars, cur, out,
                        pushedType, nTypes, nFlush, nShutdown, budget >>
        /\ Returns(name, hr, 0)

Start(start) ==
  Lifecycle("Start", OpStart, State_Started,
            start = PRESENTATION_CURRENT_POSITION,
            IF start # PRESENTATION_CURRENT_POSITION THEN start ELSE startTime)

Stop ==
  Lifecycle("Stop", OpStop, State_Stopped, fGetStartTimeFromSample, startTime)

Pause ==
  Lifecycle("Pause", OpPause, State_Paused, fGetStartTimeFromSample, startTime)

Restart ==
  Lifecycle("Restart", OpRestart, State_Started, fGetStartTimeFromSample,
            startTime)

(* ---- Shutdown of the stream sink ---- *)
Shutdown ==
  /\ lock = "none"
  /\ nShutdown < budget.shut
  /\ nShutdown' = nShutdown + 1
  /\ IF ~isShutdown
     THEN /\ sampleQueue' = << >>
          /\ spCurrentType' = Null
          /\ isShutdown' = TRUE
     ELSE UNCHANGED << sampleQueue, spCurrentType, isShutdown >>
  /\ UNCHANGED << state, guiCurrentSubtype, fGetStartTimeFromSample,
                  startTime, workQueue, lock, pc, procVars, cur, out,
                  pushedType, assertFailed, nWork, nTypes, nCtl, nFlush,
                  budget >>
  /\ Returns("Shutdown", S_OK, 0)

(* ---- what leaves the sink: an event put on _spEventQueue, or a sample
        handed to _callback->OnSample ---- *)
EventOut(met, t) ==
  [k |-> "event", v |-> met, id |-> 0, st |-> state,
   op |-> IF t = Worker THEN cur.op ELSE Op_Count,
   tag |-> IF t = Worker THEN cur.tag ELSE 0, fl |-> FALSE, by |-> t,
   mt |-> Null, hr |-> S_OK]

SampleOut(item, t) ==
  [k |-> "sample", v |-> "OnSample", id |-> item.id, st |-> state,
   op |-> IF t = Worker THEN cur.op ELSE Op_Count,
   tag |-> IF t = Worker THEN cur.tag ELSE 0, fl |-> fFlush[t], by |-> t,
   mt |-> spCurrentType, hr |-> S_OK]

(* _critSec is free for thread t, or t holds it already *)
LockOk(t) == lock = "none" \/ lock = t

(* entry of ProcessSamplesFromQueue(flush) on thread t *)
Enter(t, flush) ==
  /\ fFlush' = [fFlush EXCEPT ![t] = flush]
  /\ fNeedMoreSamples' = [fNeedMoreSamples EXCEPT ![t] = FALSE]
  /\ fProcessingSample' = [fProcessingSample EXCEPT ![t] = FALSE]
  /\ spunkSample' = [spunkSample EXCEPT ![t] = NoItem]

(* the queue of MFAllocateSerialWorkQueue hands out the item that was put
   first, and the next one when the callback of that one has returned *)
SerialWorkQueueNextLast(q) == Len(q)

SerialWorkQueueNext(q) == 1

SerialWorkQueueRest(q) ==
  [i \in 1 .. (Len(q) - 1) |->
     IF i < SerialWorkQueueNext(q) THEN q[i] ELSE q[i + 1]]

(* ---- the worker takes the next item of the serial work queue:
        OnDispatchWorkItem, switch (op) ---- *)
Dequeue ==
  /\ pc[Worker] = "idle"
  /\ workQueue # << >>
  /\ LET w == workQueue[SerialWorkQueueNext(workQueue)]
     IN /\ cur' = [op |-> w.op, tag |-> w.tag, evs |-> << >>, n |-> 0,
                   empty0 |-> FALSE, hr |-> S_OK]
        /\ pc' = [pc EXCEPT ![Worker] =
                    IF w.op \in {OpStart, OpRestart} THEN "started"
                    ELSE IF w.op = OpPause THEN "paused"
                    ELSE "first"]
        /\ Enter(Worker, w.op = OpStop)
  /\ workQueue' = SerialWorkQueueRest(workQueue)
  /\ UNCHANGED << sinkVars, lock, out, callVars, pushedType, assertFailed,
                  countVars >>

(* QueueEvent by the worker: MF_E_SHUTDOWN after Shutdown, which the
   ThrowIfError around it throws; HandleError then queues nothing. *)
WorkerEvent(met, next) ==
  /\ lock = "none"
  /\ IF isShutdown
     THEN /\ pc' = [pc EXCEPT ![Worker] = "idle"]
          /\ UNCHANGED << out, cur >>
     ELSE /\ out' = Append(out, EventOut(met, Worker))
          /\ cur' = [cur EXCEPT !.evs = Append(@, met)]
          /\ pc' = [pc EXCEPT ![Worker] = next]

(* case OpStart, OpRestart: send MEStreamSinkStarted, then drop *)
StartedEvent ==
  /\ pc[Worker] = "started"
  /\ WorkerEvent(MEStreamSinkStarted, "first")
  /\ Enter(Worker, TRUE)
  /\ UNCHANGED << sinkVars, workQueue, lock, callVars, pushedType,
                  assertFailed, countVars >>

(* case OpPause: send MEStreamSinkPaused *)
PausedEvent ==
  /\ pc[Worker] = "paused"
  /\ WorkerEvent(MEStreamSinkPaused, "idle")
  /\ UNCHANGED << sinkVars, workQueue, lock, procVars, callVars, pushedType,
                  assertFailed, countVars >>

(* ---- ProcessSamplesFromQueue, first locked block: take the front item ---- *)
FirstItem(t) ==
  /\ pc[t] = "first"
  /\ LockOk(t)
  /\ IF Len(sampleQueue) = 0
     THEN /\ fNeedMoreSamples' = [fNeedMoreSamples EXCEPT ![t] = TRUE]
          /\ pc' = [pc EXCEPT ![t] = "after"]
          /\ UNCHANGED << spunkSample, sampleQueue >>
     ELSE /\ spunkSample' = [spunkSample EXCEPT ![t] = Head(sampleQueue)]
          /\ sampleQueue' = Tail(sampleQueue)
          /\ pc' = [pc EXCEPT ![t] = "deliver"]
          /\ UNCHANGED fNeedMoreSamples
  /\ cur' = IF t = Worker THEN [cur EXCEPT !.empty0 = (Len(sampleQueue) = 0)]
            ELSE cur
  /\ UNCHANGED << state, isShutdown, spCurrentType, guiCurrentSubtype,
                  fGetStartTimeFromSample, startTime, workQueue, lock, fFlush,
                  fProcessingSample, out, callVars, pushedType, assertFailed,
                  countVars >>

(* ---- ProcessSamplesFromQueue, loop body outside the lock: a sample with a
        media buffer goes to OnSample whatever fFlush is; a sample without
        one ends the loop; a media type is neither ---- *)
Delivers(item, flush) == item.kind = "sample" /\ item.buf

Deliver(t) ==
  /\ pc[t] = "deliver"
  /\ LET item == spunkSample[t]
     IN IF item.kind = "sample" /\ ~item.buf
        THEN /\ pc' = [pc EXCEPT ![t] = "after"]
             /\ UNCHANGED << out, cur, fProcessingSample >>
        ELSE /\ out' = IF Delivers(item, fFlush[t])
                       THEN Append(out, SampleOut(item, t)) ELSE out
             /\ cur' = IF t = Worker /\ Delivers(item, fFlush[t])
                       THEN [cur EXCEPT !.n = @ + 1] ELSE cur
             /\ fProcessingSample' =
                  [fProcessingSample EXCEPT ![t] =
                     item.kind = "sample" /\ ~fFlush[t]]
             /\ pc' = [pc EXCEPT ![t] = "next"]
  /\ UNCHANGED << sinkVars, workQueue, lock, spunkSample, fFlush,
                  fNeedMoreSamples, callVars, pushedType, assertFailed,
                  countVars >>

(* ---- ProcessSamplesFromQueue, locked block at the end of the loop body ---- *)
RequestsInLoop(st, processing, shut) ==
  st = State_Started /\ processing /\ ~shut

NextItem(t) ==
  /\ pc[t] = "next"
  /\ LockOk(t)
  /\ IF RequestsInLoop(state, fProcessingSample[t], isShutdown)
     THEN /\ out' = Append(out, EventOut(MEStreamSinkRequestSample, t))
          /\ cur' = IF t = Worker
                    THEN [cur EXCEPT !.evs = Append(@, MEStreamSinkRequestSample)]
                    ELSE cur
     ELSE UNCHANGED << out, cur >>
  /\ IF Len(sampleQueue) = 0
     THEN /\ fNeedMoreSamples' = [fNeedMoreSamples EXCEPT ![t] = TRUE]
          /\ pc' = [pc EXCEPT ![t] = "after"]
          /\ UNCHANGED << spunkSample, sampleQueue >>
     ELSE /\ spunkSample' = [spunkSample EXCEPT ![t] = Head(sampleQueue)]
          /\ sampleQueue' = Tail(sampleQueue)
          /\ pc' = [pc EXCEPT ![t] = "deliver"]
          /\ UNCHANGED fNeedMoreSamples
  /\ UNCHANGED << state, isShutdown, spCurrentType, guiCurrentSubtype,
                  fGetStartTimeFromSample, startTime, workQueue, lock, fFlush,
                  fProcessingSample, callVars, pushedType, assertFailed,
                  countVars >>

(* ---- DropSamplesFromQueue and SendSampleFromQueue: what each returns,
        given the result of ProcessSamplesFromQueue ---- *)
DropSamplesFromQueueResult(need) == need

DropSamplesFromQueue(need) == TRUE
SendSampleFromQueue(need) == need

(* after the drop of OpStart/OpRestart: request a sample unless shut down;
   after the drop of OpStop: send MEStreamSinkStopped;
   DispatchProcessSample: request a sample if the queue was found empty and
   the operation is OpProcessSample *)
AfterWorkSends ==
  LET need == fNeedMoreSamples[Worker]
  IN IF cur.op \in {OpStart, OpRestart}
       THEN DropSamplesFromQueue(need) /\ ~isShutdown
     ELSE IF cur.op = OpStop THEN TRUE
     ELSE SendSampleFromQueue(need) /\ ~isShutdown
          /\ cur.op = OpProcessSample

AfterWork ==
  /\ pc[Worker] = "after"
  /\ LET met == IF cur.op = OpStop THEN MEStreamSinkStopped
                ELSE MEStreamSinkRequestSample
     IN IF AfterWorkSends
        THEN WorkerEvent(met, "idle")
        ELSE /\ pc' = [pc EXCEPT ![Worker] = "idle"]
             /\ UNCHANGED << out, cur >>
  /\ UNCHANGED << sinkVars, workQueue, lock, procVars, callVars, pushedType,
                  assertFailed, countVars >>

(* ---- IMFStreamSink::Flush: holds _critSec from the shutdown test to the
        return of DropSamplesFromQueue ---- *)
Flush ==
  /\ lock = "none"
  /\ pc[Flusher] = "idle"
  /\ nFlush < budget.flush
  /\ IF isShutdown
     THEN UNCHANGED << lock, pc, procVars, nFlush >>
     ELSE /\ lock' = Flusher
          /\ pc' = [pc EXCEPT ![Flusher] = "first"]
          /\ Enter(Flusher, TRUE)
          /\ nFlush' = nFlush + 1
  /\ UNCHANGED << sinkVars, workQueue, cur, out, pushedType, assertFailed,
                  nWork, nTypes, nCtl, nShutdown, budget >>
  /\ Returns("Flush", IF isShutdown THEN MF_E_SHUTDOWN ELSE S_OK, 0)

FlushReturn ==
  /\ pc[Flusher] = "after"
  /\ lock = Flusher
  /\ lock' = "none"
  /\ pc' = [pc EXCEPT ![Flusher] = "idle"]
  /\ UNCHANGED << sinkVars, workQueue, procVars, cur, out, callVars,
                  pushedType, assertFailed, countVars >>

Next ==
  \/ \E b \in BOOLEAN :
       ProcessSample(SampleItem(Len(pushedType) + 1, b)) /\ UNCHANGED restVars
  \/ ProcessSample(NoItem) /\ UNCHANGED restVars
  \/ \E mt \in budget.mediaTypes \cup {Null} :
       SetCurrentMediaType(mt) /\ UNCHANGED restVars
  \/ \E start \in budget.startTimes : Start(start) /\ UNCHANGED restVars
  \/ Stop /\ UNCHANGED restVars
  \/ Pause /\ UNCHANGED restVars
  \/ Restart /\ UNCHANGED restVars
  \/ Flush /\ UNCHANGED restVars
  \/ FlushReturn /\ UNCHANGED restVars
  \/ Shutdown /\ UNCHANGED restVars
  \/ Dequeue /\ UNCHANGED restVars
  \/ StartedEvent /\ UNCHANGED restVars
  \/ PausedEvent /\ UNCHANGED restVars
  \/ \E t \in Threads : FirstItem(t) /\ UNCHANGED restVars
  \/ \E t \in Threads : Deliver(t) /\ UNCHANGED restVars
  \/ \E t \in Threads : NextItem(t) /\ UNCHANGED restVars
  \/ AfterWork /\ UNCHANGED restVars

Spec == Init /\ [][Next]_vars

(* ---- scheduling: the serial work queue runs every item that was put on it,
        and a thread inside ProcessSamplesFromQueue runs on to its return ---- *)
WorkerStep ==
  /\ \/ Dequeue
     \/ StartedEvent
     \/ PausedEvent
     \/ FirstItem(Worker)
     \/ Deliver(Worker)
     \/ NextItem(Worker)
     \/ AfterWork
  /\ UNCHANGED restVars

FlusherStep ==
  /\ \/ FirstItem(Flusher)
     \/ Deliver(Flusher)
     \/ NextItem(Flusher)
     \/ FlushReturn
  /\ UNCHANGED restVars

SpecFair == Spec /\ WF_vars(WorkerStep) /\ WF_vars(FlusherStep)

(* ---- the stream sink with its event queue: work items that fail, and a
        caller of GetEvent.  The call budgets of these behaviours: ---- *)
EventBudget(s, t, c, f, sh, faults, gets, puts) ==
  [samples |-> s, types |-> t, ctl |-> c, flush |-> f, shut |-> sh,
   mediaTypes |-> OneType, startTimes |-> OneStart, faults |-> faults,
   getEvents |-> gets, puts |-> puts]

EventBudgets ==
  { EventBudget(1, 1, 2, 0, 0, MaxFaults, 0, NoPutFault),
    EventBudget(1, 1, 1, 1, 1, MaxFaults, 0, NoPutFault),
    EventBudget(1, 1, 2, 0, 1, 0, MaxGetEvent, NoPutFault),
    EventBudget(1, 1, 2, 0, 0, 0, 0, 0),
    EventBudget(1, 1, 2, 0, 0, 0, 0, MaxPuts) }

InitEvents ==
  /\ StreamSinkInit
  /\ budget \in EventBudgets
  /\ MediaSinkWithStream

(* the MEError events sent so far *)
Faults == Cardinality({ i \in DOMAIN out : out[i].v = MEError })

(* ---- a Platform::Exception inside OnDispatchWorkItem on a sink that is
        not shut down: the event queue refuses the event of a QueueEvent
        under ThrowIfError, or _callback->OnSample throws ---- *)
WorkerQueuesEvent ==
  \/ pc[Worker] \in {"started", "paused"} /\ lock = "none"
  \/ pc[Worker] = "after" /\ AfterWorkSends /\ lock = "none"
  \/ /\ pc[Worker] = "next"
     /\ RequestsInLoop(state, fProcessingSample[Worker], isShutdown)
     /\ LockOk(Worker)

WorkerCallsOnSample ==
  /\ pc[Worker] = "deliver"
  /\ Delivers(spunkSample[Worker], fFlush[Worker])

WorkItemThrows ==
  /\ ~isShutdown
  /\ Faults < budget.faults
  /\ WorkerQueuesEvent \/ WorkerCallsOnSample
  /\ cur' = [cur EXCEPT !.hr = IF WorkerCallsOnSample THEN E_FAIL
                                ELSE E_UNEXPECTED]
  /\ pc' = [pc EXCEPT ![Worker] = "catch"]
  /\ UNCHANGED << sinkVars, workQueue, lock, procVars, out, callVars,
                  pushedType, assertFailed, countVars >>

(* ---- catch (Platform::Exception ^exc) { HandleError(exc->HResult); }
        return S_OK; ---- *)
HandleErrorSendsNever(shut) == FALSE

HandleErrorSends(shut) == ~shut

ErrorOut == [EventOut(MEError, Worker) EXCEPT !.hr = cur.hr]

HandleError ==
  /\ pc[Worker] = "catch"
  /\ lock = "none"
  /\ IF HandleErrorSends(isShutdown)
     THEN /\ out' = Append(out, ErrorOut)
          /\ cur' = [cur EXCEPT !.evs = Append(@, MEError)]
     ELSE UNCHANGED << out, cur >>
  /\ pc' = [pc EXCEPT ![Worker] = "idle"]
  /\ UNCHANGED << sinkVars, workQueue, lock, procVars, callVars, pushedType,
                  assertFailed, countVars >>

(* ---- IMFMediaEventGenerator::GetEvent without MF_EVENT_FLAG_NO_WAIT: the
        shutdown test and the copy of the queue pointer under _critSec ---- *)
EventsQueued == Cardinality({ i \in DOMAIN out : out[i].k = "event" })

GetEvent ==
  /\ getEvent.pc = "idle"
  /\ lock = "none"
  /\ getEvent.calls < budget.getEvents
  /\ getEvent' = [getEvent EXCEPT
                    !.calls = @ + 1,
                    !.hr = IF isShutdown THEN MF_E_SHUTDOWN ELSE S_OK,
                    !.pc = IF isShutdown THEN "return" ELSE "wait"]

(* spQueue->GetEvent outside the lock: it returns when the queue holds an
   event, or when Shutdown has shut the queue down *)
GetEventWait ==
  /\ getEvent.pc = "wait"
  /\ isShutdown \/ EventsQueued > getEvent.taken
  /\ getEvent' = [getEvent EXCEPT
                    !.hr = IF isShutdown THEN MF_E_SHUTDOWN ELSE S_OK,
                    !.taken = IF isShutdown THEN @ ELSE @ + 1,
                    !.pc = "return"]

(* return hr *)
GetEventReturn ==
  /\ getEvent.pc = "return"
  /\ getEvent' = [getEvent EXCEPT !.pc = "idle"]

NextEvents ==
  \/ Next
  \/ WorkItemThrows /\ UNCHANGED restVars
  \/ HandleError /\ UNCHANGED restVars
  \/ GetEvent /\ UNCHANGED << streamVars, msVars, proxy, critSec >>
  \/ GetEventWait /\ UNCHANGED << streamVars, msVars, proxy, critSec >>
  \/ GetEventReturn /\ UNCHANGED << streamVars, msVars, proxy, critSec >>

SpecEvents == InitEvents /\ [][NextEvents]_vars

WorkerStepEvents ==
  \/ WorkerStep
  \/ HandleError /\ UNCHANGED restVars

SpecEventsFair ==
  SpecEvents /\ WF_vars(WorkerStepEvents) /\ WF_vars(FlusherStep)

(***************************************************************************)
(* VideoCaptureMediaSinkWinRT: the media sink that owns the stream sink     *)
(***************************************************************************)
MsAlive == msState = "initialized"

(* the call is within the budget of this behaviour *)
MsCall(name) == MsAlive /\ nMs < MaxMsCalls /\ name \in budget.msCalls

(* the call enters the media sink's _critSec, which a SetPresentationClock
   in progress holds *)
MsEnter(name) == MsCall(name) /\ msClockCall = NoClockCall

MsReturns(name, arg, hr) ==
  /\ msLastCall' = [call |-> name, arg |-> arg, hr |-> hr]
  /\ nMs' = nMs + 1

(* a stream sink as its constructor and Initialize leave it, in state st with
   current type mt; what the earlier stream sink handed out stays recorded *)
FreshStream(st, mt) ==
  /\ state' = st
  /\ isShutdown' = FALSE
  /\ sampleQueue' = << >>
  /\ spCurrentType' = mt
  /\ guiCurrentSubtype' = IF mt = Null THEN GUID_NULL ELSE mt.sub
  /\ fGetStartTimeFromSample' = FALSE
  /\ startTime' = "0"
  /\ workQueue' = << >>
  /\ lock' = "none"
  /\ pc' = [t \in Threads |-> "idle"]
  /\ spunkSample' = [t \in Threads |-> NoItem]
  /\ fFlush' = [t \in Threads |-> FALSE]
  /\ fNeedMoreSamples' = [t \in Threads |-> FALSE]
  /\ fProcessingSample' = [t \in Threads |-> FALSE]
  /\ cur' = NoWork
  /\ UNCHANGED << out, callVars, pushedType, countVars >>

(* ---- ~VideoCaptureStreamSinkWinRT and ~VideoCaptureMediaSinkWinRT:
        assert(_isShutdown) is violated when the object was not shut
        down ---- *)
StreamSinkDestructorAsserts(shut) == ~shut

MediaSinkDestructorAsserts(shut) == ~shut

(* ---- IMFMediaSink::GetStreamSinkById ---- *)
GetStreamSinkById(id) ==
  IF id # GetStreamId \/ spStreamSink = NoStream THEN MF_E_INVALIDSTREAMNUMBER
  ELSE IF msIsShutdown THEN MF_E_SHUTDOWN
  ELSE S_OK

(* ---- IMFMediaSink::AddStreamSink.  hr after the look-up of the stream:
        a look-up that was skipped or failed leaves S_OK ---- *)
AddStreamSinkLookupNotFound(id) == S_OK

AddStreamSinkLookup(id) ==
  LET hr0 == IF msIsShutdown THEN MF_E_SHUTDOWN
             ELSE IF id # GetStreamId THEN MF_E_INVALIDSTREAMNUMBER
             ELSE GetStreamSinkById(id)
  IN IF SUCCEEDED(hr0) THEN MF_E_STREAMSINK_EXISTS ELSE S_OK

(* SetCurrentMediaType on the stream sink that was just constructed *)
NewStreamSetCurrentMediaType(pMediaType) ==
  IF ~SUCCEEDED(ValidateOperation(State_TypeNotSet, OpSetMediaType))
  THEN ValidateOperation(State_TypeNotSet, OpSetMediaType)
  ELSE IF pMediaType.sub = NoSubtype THEN MF_E_ATTRIBUTENOTFOUND
  ELSE S_OK

AddStreamSinkResult(id, pMediaType) ==
  IF SUCCEEDED(AddStreamSinkLookup(id)) /\ pMediaType # Null
  THEN NewStreamSetCurrentMediaType(pMediaType)
  ELSE AddStreamSinkLookup(id)

(* a stream sink is constructed when the look-up left S_OK; it becomes
   _spStreamSink when its initialisation succeeded, and is released
   otherwise *)
AddStreamSinkEffect(id, pMediaType) ==
  /\ nStreams' = IF SUCCEEDED(AddStreamSinkLookup(id)) THEN nStreams + 1
                 ELSE nStreams
  /\ IF SUCCEEDED(AddStreamSinkResult(id, pMediaType))
     THEN /\ spStreamSink' = Stream
          /\ FreshStream(IF pMediaType = Null THEN State_TypeNotSet
                         ELSE State_Ready, pMediaType)
     ELSE UNCHANGED << spStreamSink, sinkVars, workQueue, lock, pc, procVars,
                       cur, out, callVars, pushedType, countVars >>

(* the stream sinks whose last reference AddStreamSink releases, and whose
   destructor then runs: the one it constructed, when its initialisation
   failed (spMFStream goes out of scope); the one _spStreamSink held, when
   it is replaced and no caller holds it (last) *)
AddStreamSinkAsserts(id, pMediaType, last) ==
  IF SUCCEEDED(AddStreamSinkResult(id, pMediaType))
  THEN last /\ spStreamSink # NoStream
       /\ StreamSinkDestructorAsserts(isShutdown)
  ELSE SUCCEEDED(AddStreamSinkLookup(id))
       /\ StreamSinkDestructorAsserts(FALSE)

AddStreamSink(id, pMediaType) ==
  /\ MsEnter("AddStreamSink")
  /\ AddStreamSinkEffect(id, pMediaType)
  /\ \E last \in BOOLEAN :
       assertFailed' = (assertFailed
                        \/ AddStreamSinkAsserts(id, pMediaType, last))
  /\ UNCHANGED << msState, msIsShutdown, spClock, callback, llStartTime,
                  clockSinks, nOnShutdown, msPc, msClockCall, nMsShutdown >>
  /\ MsReturns("AddStreamSink", [id |-> id, mt |-> pMediaType],
               AddStreamSinkResult(id, pMediaType))

(* ---- IMFMediaSink::RemoveStreamSink ---- *)
RemoveStreamSinkResultAnyId(id) ==
  IF msIsShutdown THEN MF_E_SHUTDOWN ELSE S_OK

RemoveStreamSinkResult(id) ==
  IF msIsShutdown THEN MF_E_SHUTDOWN
  ELSE IF id # GetStreamId THEN MF_E_INVALIDSTREAMNUMBER
  ELSE S_OK

RemoveStreamSink(id) ==
  /\ MsEnter("RemoveStreamSink")
  /\ IF SUCCEEDED(RemoveStreamSinkResult(id)) /\ spStreamSink # NoStream
     THEN Shutdown
     ELSE UNCHANGED streamVars
  /\ UNCHANGED << msState, msIsShutdown, spStreamSink, spClock, callback,
                  llStartTime, clockSinks, nOnShutdown, nStreams, msPc,
                  msClockCall, nMsShutdown >>
  /\ MsReturns("RemoveStreamSink", id, RemoveStreamSinkResult(id))

(* ---- RuntimeClassInitialize(callback, encodingProperties): the properties
        are converted to a media type, which fails unless the major type is
        video; a failure leaves the media sink to its destructor, which
        MakeAndInitialize runs when it releases the object ---- *)
ConvertPropertiesToMediaType(encodingProperties) ==
  IF encodingProperties.major # MFMediaType_Video THEN E_UNEXPECTED ELSE S_OK

RuntimeClassInitializeResult(encodingProperties) ==
  IF encodingProperties = Null THEN S_OK
  ELSE IF ~SUCCEEDED(ConvertPropertiesToMediaType(encodingProperties))
       THEN ConvertPropertiesToMediaType(encodingProperties)
  ELSE AddStreamSinkResult(GetStreamId, encodingProperties)

MakeAndInitialize(encodingProperties) ==
  /\ LET hr == RuntimeClassInitializeResult(encodingProperties)
     IN /\ IF encodingProperties # Null
              /\ SUCCEEDED(ConvertPropertiesToMediaType(encodingProperties))
           THEN /\ AddStreamSinkEffect(GetStreamId, encodingProperties)
                /\ assertFailed' =
                     (\/ assertFailed
                      \/ AddStreamSinkAsserts(GetStreamId,
                                              encodingProperties, FALSE)
                      \/ (~SUCCEEDED(hr)
                          /\ MediaSinkDestructorAsserts(msIsShutdown)))
           ELSE /\ assertFailed' =
                     (\/ assertFailed
                      \/ (~SUCCEEDED(hr)
                          /\ MediaSinkDestructorAsserts(msIsShutdown)))
                /\ UNCHANGED << spStreamSink, sinkVars, workQueue, lock, pc,
                                procVars, cur, out, callVars, pushedType,
                                countVars, nStreams >>
        /\ msState' = IF SUCCEEDED(hr) THEN "initialized" ELSE "failed"
        /\ callback' = IF SUCCEEDED(hr) THEN Callback ELSE NoCallback
        /\ msLastCall' = [call |-> "RuntimeClassInitialize", arg |-> 0,
                          hr |-> hr]
  /\ UNCHANGED << msIsShutdown, spClock, llStartTime, clockSinks,
                  nOnShutdown, msPc, msClockCall, nMs,
                  nMsShutdown >>

RuntimeClassInitialize(encodingProperties) ==
  /\ msState = "constructed"
  /\ MakeAndInitialize(encodingProperties)

(* ---- IMFMediaSink::SetPresentationClock ---- *)
(* IMFPresentationClock::RemoveClockStateSink(this) and AddClockStateSink(this)
   as the media sink calls them: on the clock it holds, on the clock it is
   given; a null pointer is not called *)
RemoveClockStateSinkKept(sinks, clock) == sinks

RemoveClockStateSink(sinks, clock) ==
  IF clock = NoClock THEN sinks ELSE sinks \ {clock}

AddClockStateSink(sinks, clock) ==
  IF clock = NoClock THEN sinks ELSE sinks \cup {clock}

(* the shutdown test and the call of the old clock *)
SetPresentationClock(pPresentationClock) ==
  /\ MsEnter("SetPresentationClock")
  /\ IF msIsShutdown
     THEN /\ UNCHANGED << clockSinks, msClockCall >>
          /\ MsReturns("SetPresentationClock", pPresentationClock,
                       MF_E_SHUTDOWN)
     ELSE /\ clockSinks' = RemoveClockStateSink(clockSinks, spClock)
          /\ msClockCall' = pPresentationClock
          /\ UNCHANGED << msLastCall, nMs >>
  /\ UNCHANGED << msState, msIsShutdown, spStreamSink, spClock, callback,
                  llStartTime, nOnShutdown, nStreams, msPc, nMsShutdown,
                  streamVars >>

(* the call of the new clock, the store to _spClock and the return *)
SetPresentationClockRegister ==
  /\ MsAlive
  /\ msClockCall # NoClockCall
  /\ clockSinks' = AddClockStateSink(clockSinks, msClockCall)
  /\ spClock' = msClockCall
  /\ msClockCall' = NoClockCall
  /\ UNCHANGED << msState, msIsShutdown, spStreamSink, callback, llStartTime,
                  nOnShutdown, nStreams, msPc, nMsShutdown, streamVars >>
  /\ MsReturns("SetPresentationClock", msClockCall, S_OK)

(* ---- IMFMediaSink::GetStreamSinkCount and the call of GetStreamSinkById:
        both leave the media sink as it is ---- *)
GetStreamSinkCountResult == IF msIsShutdown THEN MF_E_SHUTDOWN ELSE S_OK

GetStreamSinkCount ==
  /\ MsEnter("GetStreamSinkCount")
  /\ UNCHANGED << msState, msIsShutdown, spStreamSink, spClock, callback,
                  llStartTime, clockSinks, nOnShutdown, nStreams, msPc,
                  msClockCall, nMsShutdown, streamVars >>
  /\ MsReturns("GetStreamSinkCount", 0, GetStreamSinkCountResult)

GetStreamSinkByIdCall(dwStreamSinkIdentifier) ==
  /\ MsEnter("GetStreamSinkById")
  /\ UNCHANGED << msState, msIsShutdown, spStreamSink, spClock, callback,
                  llStartTime, clockSinks, nOnShutdown, nStreams, msPc,
                  msClockCall, nMsShutdown, streamVars >>
  /\ MsReturns("GetStreamSinkById", dwStreamSinkIdentifier,
               GetStreamSinkById(dwStreamSinkIdentifier))

(* ---- IMFMediaSink::Shutdown, the block under _critSec.  The local
        callback is set by the call that finds the sink not shut down.
        With no stream sink the call of its Shutdown goes through a null
        pointer: the process faults, or the call is passed over. ---- *)
MediaSinkShutdownCallbackAlways(shut, cb) == cb

MediaSinkShutdownCallback(shut, cb) == IF shut THEN NoCallback ELSE cb

MediaSinkShutdown(t) ==
  /\ MsAlive
  /\ msClockCall = NoClockCall
  /\ msPc[t] = "idle"
  /\ nMsShutdown < budget.msShut
  /\ nMsShutdown' = nMsShutdown + 1
  /\ LET cb == MediaSinkShutdownCallback(msIsShutdown, callback)
     IN \/ /\ ~msIsShutdown
           /\ spStreamSink # NoStream
           /\ Shutdown
           /\ spClock' = NoClock
           /\ msIsShutdown' = TRUE
           /\ msState' = msState
           /\ msPc' = [msPc EXCEPT ![t] = IF cb # NoCallback THEN "notify"
                                          ELSE "return"]
           /\ UNCHANGED msLastCall
        \/ /\ ~msIsShutdown
           /\ spStreamSink = NoStream
           /\ \/ /\ msState' = "crashed"
                 /\ msLastCall' = [call |-> "Shutdown", arg |-> 0,
                                   hr |-> Fault]
                 /\ UNCHANGED << spClock, msIsShutdown, msPc >>
              \/ /\ spClock' = NoClock
                 /\ msIsShutdown' = TRUE
                 /\ msState' = msState
                 /\ msPc' = [msPc EXCEPT ![t] = IF cb # NoCallback
                                                THEN "notify" ELSE "return"]
                 /\ UNCHANGED msLastCall
           /\ UNCHANGED streamVars
        \/ /\ msIsShutdown
           /\ msPc' = [msPc EXCEPT ![t] = IF cb # NoCallback THEN "notify"
                                          ELSE "return"]
           /\ UNCHANGED << spClock, msIsShutdown, msState, msLastCall,
                           streamVars >>
  /\ UNCHANGED << spStreamSink, callback, llStartTime, clockSinks,
                  nOnShutdown, nStreams, msClockCall, nMs >>

(* callback->OnShutdown() outside the lock *)
MediaSinkOnShutdown(t) ==
  /\ MsAlive
  /\ msPc[t] = "notify"
  /\ nOnShutdown' = nOnShutdown + 1
  /\ msPc' = [msPc EXCEPT ![t] = "return"]
  /\ UNCHANGED << msState, msIsShutdown, spStreamSink, spClock, callback,
                  llStartTime, clockSinks, nStreams, msLastCall,
                  msClockCall, nMs, nMsShutdown, streamVars >>

MediaSinkShutdownReturn(t) ==
  /\ MsAlive
  /\ msPc[t] = "return"
  /\ msPc' = [msPc EXCEPT ![t] = "idle"]
  /\ msLastCall' = [call |-> "Shutdown", arg |-> 0, hr |-> S_OK]
  /\ UNCHANGED << msState, msIsShutdown, spStreamSink, spClock, callback,
                  llStartTime, clockSinks, nOnShutdown, nStreams,
                  msClockCall, nMs, nMsShutdown, streamVars >>

(* ---- IMFClockStateSink: OnClockStart and OnClockStop call the stream sink
        and return S_OK whatever it returned; with no stream sink the call
        goes through a null pointer ---- *)
OnClockForward(name, streamCall, offset) ==
  /\ MsEnter(name)
  /\ \/ /\ msIsShutdown
        /\ UNCHANGED << msState, llStartTime, streamVars >>
        /\ MsReturns(name, 0, MF_E_SHUTDOWN)
     \/ /\ ~msIsShutdown
        /\ spStreamSink # NoStream
        /\ streamCall
        /\ llStartTime' = offset
        /\ msState' = msState
        /\ MsReturns(name, 0, S_OK)
     \/ /\ ~msIsShutdown
        /\ spStreamSink = NoStream
        /\ llStartTime' = offset
        /\ UNCHANGED streamVars
        /\ \/ /\ msState' = "crashed"
              /\ MsReturns(name, 0, Fault)
           \/ /\ msState' = msState
              /\ MsReturns(name, 0, S_OK)
  /\ UNCHANGED << msIsShutdown, spStreamSink, spClock, callback, clockSinks,
                  nOnShutdown, nStreams, msPc, msClockCall, nMsShutdown >>

OnClockStart(llClockStartOffset) ==
  OnClockForward("OnClockStart", Start(llClockStartOffset),
                 llClockStartOffset)

OnClockStop == OnClockForward("OnClockStop", Stop, llStartTime)

(* ---- OnClockPause and OnClockRestart return at once, without the lock ---- *)
OnClockRejectedOk == S_OK

OnClockRejected == MF_E_INVALID_STATE_TRANSITION

OnClockPause ==
  /\ MsCall("OnClockPause")
  /\ UNCHANGED << msState, msIsShutdown, spStreamSink, spClock, callback,
                  llStartTime, clockSinks, nOnShutdown, nStreams, msPc,
                  msClockCall, nMsShutdown, streamVars >>
  /\ MsReturns("OnClockPause", 0, OnClockRejected)

OnClockRestart ==
  /\ MsCall("OnClockRestart")
  /\ UNCHANGED << msState, msIsShutdown, spStreamSink, spClock, callback,
                  llStartTime, clockSinks, nOnShutdown, nStreams, msPc,
                  msClockCall, nMsShutdown, streamVars >>
  /\ MsReturns("OnClockRestart", 0, OnClockRejected)

(* the media sink after its constructor; no stream sink exists yet *)
InitMediaSink ==
  /\ state = State_TypeNotSet
  /\ isShutdown = FALSE
  /\ sampleQueue = << >>
  /\ spCurrentType = Null
  /\ guiCurrentSubtype = GUID_NULL
  /\ fGetStartTimeFromSample = FALSE
  /\ startTime = "0"
  /\ workQueue = << >>
  /\ lock = "none"
  /\ pc = [t \in Threads |-> "idle"]
  /\ spunkSample = [t \in Threads |-> NoItem]
  /\ fFlush = [t \in Threads |-> FALSE]
  /\ fNeedMoreSamples = [t \in Threads |-> FALSE]
  /\ fProcessingSample = [t \in Threads |-> FALSE]
  /\ cur = NoWork
  /\ out = << >>
  /\ lastCall = NoCall
  /\ calls = << >>
  /\ pushedType = << >>
  /\ assertFailed = FALSE
  /\ nWork = 0
  /\ nTypes = 0
  /\ nCtl = 0
  /\ nFlush = 0
  /\ nShutdown = 0
  /\ getEvent = NoGetEvent
  /\ proxy = NoProxy
  /\ critSec = NoCritSec
  /\ budget \in MediaSinkBudgets
  /\ msState = "constructed"
  /\ msIsShutdown = FALSE
  /\ spStreamSink = NoStream
  /\ spClock = NoClock
  /\ callback = NoCallback
  /\ llStartTime = "0"
  /\ clockSinks = {}
  /\ nOnShutdown = 0
  /\ nStreams = 0
  /\ msPc = [t \in MsCallers |-> "idle"]
  /\ msLastCall = NoMsCall
  /\ msClockCall = NoClockCall
  /\ nMs = 0
  /\ nMsShutdown = 0

(* the calls on the stream sink that the media sink handed out *)
StreamSinkStep ==
  /\ MsAlive
  /\ spStreamSink # NoStream
  /\ Next

NextMediaSink ==
  \/ \E mt \in budget.mediaTypes \cup {Null} :
       RuntimeClassInitialize(mt) /\ UNCHANGED envVars
  \/ \E id \in StreamIds, mt \in budget.mediaTypes \cup {Null} :
       AddStreamSink(id, mt) /\ UNCHANGED envVars
  \/ \E id \in StreamIds : RemoveStreamSink(id) /\ UNCHANGED envVars
  \/ GetStreamSinkCount /\ UNCHANGED envVars
  \/ \E id \in StreamIds : GetStreamSinkByIdCall(id) /\ UNCHANGED envVars
  \/ \E c \in Clocks \cup {NoClock} :
       SetPresentationClock(c) /\ UNCHANGED envVars
  \/ SetPresentationClockRegister /\ UNCHANGED envVars
  \/ \E t \in MsCallers : MediaSinkShutdown(t) /\ UNCHANGED envVars
  \/ \E t \in MsCallers : MediaSinkOnShutdown(t) /\ UNCHANGED envVars
  \/ \E t \in MsCallers : MediaSinkShutdownReturn(t) /\ UNCHANGED envVars
  \/ \E start \in budget.startTimes :
       OnClockStart(start) /\ UNCHANGED envVars
  \/ OnClockStop /\ UNCHANGED envVars
  \/ OnClockPause /\ UNCHANGED envVars
  \/ OnClockRestart /\ UNCHANGED envVars
  \/ StreamSinkStep

SpecMediaSink == InitMediaSink /\ [][NextMediaSink]_vars

(***************************************************************************)
(* VideoCaptureMediaSinkProxyWinRT, which makes the media sink and is its   *)
(* callback                                                                *)
(***************************************************************************)
ProxyBudgets ==
  { MediaSinkBudget(0, 0, 0, 0, MaxShutdown, MediaTypes, OneStart,
                    {"RemoveStreamSink", "GetStreamSinkCount"},
                    MaxShutdown) }

InitProxy ==
  /\ StreamSinkInit
  /\ budget \in ProxyBudgets
  /\ msState = "constructed"
  /\ msIsShutdown = FALSE
  /\ spStreamSink = NoStream
  /\ spClock = NoClock
  /\ callback = NoCallback
  /\ llStartTime = "0"
  /\ clockSinks = {}
  /\ nOnShutdown = 0
  /\ nStreams = 0
  /\ msPc = [t \in MsCallers |-> "idle"]
  /\ msLastCall = NoMsCall
  /\ msClockCall = NoClockCall
  /\ nMs = 0
  /\ nMsShutdown = 0

(* ---- CheckShutdown: Throw(MF_E_SHUTDOWN) once _shutdown is set ---- *)
CheckShutdownNever(shut) == S_OK

CheckShutdown(shut) == IF shut THEN MF_E_SHUTDOWN ELSE S_OK

(* ---- InitializeAsync, the operation under _critSec.  hr before the media
        sink is made ---- *)
InitializeAsyncCheck ==
  IF ~SUCCEEDED(CheckShutdown(proxy.shutdown))
  THEN CheckShutdown(proxy.shutdown)
  ELSE IF proxy.mediaSink # NoMediaSink THEN MF_E_ALREADY_INITIALIZED
  ELSE S_OK

(* MakeAndInitialize constructs a media sink and leaves it in _mediaSink
   when RuntimeClassInitialize succeeded; a media sink that failed is gone,
   and the next call constructs another *)
InitializeAsync(encodingProperties) ==
  /\ Len(proxy.calls) < MaxProxyCalls
  /\ msState # "crashed"
  /\ IF SUCCEEDED(InitializeAsyncCheck)
     THEN /\ MakeAndInitialize(encodingProperties)
          /\ proxy' = [proxy EXCEPT
                         !.mediaSink =
                            IF SUCCEEDED(RuntimeClassInitializeResult(
                                           encodingProperties))
                            THEN MediaSink ELSE NoMediaSink,
                         !.calls = Append(@, RuntimeClassInitializeResult(
                                               encodingProperties))]
     ELSE /\ proxy' = [proxy EXCEPT
                         !.calls = Append(@, InitializeAsyncCheck)]
          /\ UNCHANGED << msVars, streamVars >>
  /\ UNCHANGED << getEvent, critSec >>

(* ---- GetMFExtension ---- *)
GetMFExtensionResult ==
  IF proxy.mediaSink = NoMediaSink THEN MF_E_NOT_INITIALIZED ELSE S_OK

GetMFExtension ==
  /\ msState # "crashed"
  /\ proxy' = [proxy EXCEPT !.ext = GetMFExtensionResult]
  /\ UNCHANGED << getEvent, critSec, msVars, streamVars >>

(* ---- OnShutdown, which the media sink's Shutdown calls through the
        callback it was given ---- *)
OnShutdown ==
  proxy' = IF proxy.shutdown THEN proxy
           ELSE [proxy EXCEPT !.shutdown = TRUE, !.mediaSink = NoMediaSink]

CallbackOnShutdown(t) ==
  /\ MediaSinkOnShutdown(t)
  /\ OnShutdown
  /\ UNCHANGED << getEvent, critSec >>

NextProxy ==
  \/ \E mt \in budget.mediaTypes \cup {Null} : InitializeAsync(mt)
  \/ GetMFExtension
  \/ \E id \in StreamIds : RemoveStreamSink(id) /\ UNCHANGED envVars
  \/ GetStreamSinkCount /\ UNCHANGED envVars
  \/ \E t \in MsCallers : MediaSinkShutdown(t) /\ UNCHANGED envVars
  \/ \E t \in MsCallers : CallbackOnShutdown(t)
  \/ \E t \in MsCallers : MediaSinkShutdownReturn(t) /\ UNCHANGED envVars

SpecProxy == InitProxy /\ [][NextProxy]_vars

(***************************************************************************)
(* The critical sections.  Every operation is the sequence of its          *)
(* CriticalSectionScoped blocks, those of the methods it calls included,   *)
(* and of the callbacks it makes; a critical section may be entered again  *)
(* by the thread that owns it.                                             *)
(***************************************************************************)
Scoped(l) == [k |-> "enter", l |-> l]
EndScoped(l) == [k |-> "leave", l |-> l]
CallOut(name) == [k |-> "call", l |-> name]

(* a method of the stream sink that runs in one block under its _critSec:
   ProcessSample, Start, Stop, Pause, Restart, Shutdown, QueueEvent *)
StreamSinkCall == << Scoped(StreamSinkLock), EndScoped(StreamSinkLock) >>

(* SetCurrentMediaType calls IsMediaTypeSupported inside its block *)
SetCurrentMediaTypeLocks ==
  << Scoped(StreamSinkLock) >> \o StreamSinkCall \o << EndScoped(StreamSinkLock) >>

(* ProcessSamplesFromQueue: a block that takes the first item, OnSample
   outside it, a block that queues the request and takes the next item *)
ProcessSamplesFromQueueLocks ==
  StreamSinkCall \o << CallOut("OnSample"), Scoped(StreamSinkLock) >>
  \o StreamSinkCall \o << EndScoped(StreamSinkLock) >>

(* Flush calls DropSamplesFromQueue inside its block *)
FlushLocks ==
  << Scoped(StreamSinkLock) >> \o ProcessSamplesFromQueueLocks
  \o << EndScoped(StreamSinkLock) >>

(* OnDispatchWorkItem takes no lock of its own *)
OnDispatchWorkItemLocks == ProcessSamplesFromQueueLocks

(* RemoveStreamSink, OnClockStart, OnClockStop: the stream sink's Shutdown,
   Start or Stop inside the media sink's block *)
MediaSinkForwardLocks ==
  << Scoped(MediaSinkLock) >> \o StreamSinkCall \o << EndScoped(MediaSinkLock) >>

(* AddStreamSink calls GetStreamSinkById and the new stream sink's
   SetCurrentMediaType inside its block *)
AddStreamSinkLocks ==
  << Scoped(MediaSinkLock), Scoped(MediaSinkLock), EndScoped(MediaSinkLock) >>
  \o SetCurrentMediaTypeLocks \o << EndScoped(MediaSinkLock) >>

(* SetPresentationClock, GetStreamSinkCount, GetStreamSinkById *)
MediaSinkCall == << Scoped(MediaSinkLock), EndScoped(MediaSinkLock) >>

(* the proxy's OnShutdown *)
OnShutdownLocks == << Scoped(ProxyLock), EndScoped(ProxyLock) >>

(* the media sink's Shutdown: callback->OnShutdown() after its block *)
MediaSinkShutdownLocksInside ==
  << Scoped(MediaSinkLock) >> \o StreamSinkCall \o OnShutdownLocks
  \o << EndScoped(MediaSinkLock) >>

MediaSinkShutdownLocks ==
  << Scoped(MediaSinkLock) >> \o StreamSinkCall \o << EndScoped(MediaSinkLock) >>
  \o OnShutdownLocks

(* InitializeAsync: RuntimeClassInitialize, which calls RemoveStreamSink and
   AddStreamSink, inside the proxy's block *)
InitializeAsyncLocks ==
  << Scoped(ProxyLock) >> \o MediaSinkForwardLocks \o AddStreamSinkLocks
  \o << EndScoped(ProxyLock) >>

GetMFExtensionLocks == << Scoped(ProxyLock), EndScoped(ProxyLock) >>

CallerOps ==
  {"InitializeAsync", "GetMFExtension", "Shutdown", "OnClockStart",
   "AddStreamSink", "SetPresentationClock", "SetCurrentMediaType",
   "ProcessSample", "Flush"}

LocksOf(op) ==
  IF op = "InitializeAsync" THEN InitializeAsyncLocks
  ELSE IF op = "GetMFExtension" THEN GetMFExtensionLocks
  ELSE IF op = "Shutdown" THEN MediaSinkShutdownLocks
  ELSE IF op = "OnClockStart" THEN MediaSinkForwardLocks
  ELSE IF op = "AddStreamSink" THEN AddStreamSinkLocks
  ELSE IF op = "SetPresentationClock" THEN MediaSinkCall
  ELSE IF op = "SetCurrentMediaType" THEN SetCurrentMediaTypeLocks
  ELSE IF op = "ProcessSample" THEN StreamSinkCall
  ELSE IF op = "Flush" THEN FlushLocks
  ELSE OnDispatchWorkItemLocks

OpsOf(t) == IF t = Worker THEN {"OnDispatchWorkItem"} ELSE CallerOps

Running(t) == critSec.at[t].op # "None"

NextStep(t) == LocksOf(critSec.at[t].op)[critSec.at[t].i]

(* the critical sections thread t is inside *)
Owned(t) == { l \in CritSecs : critSec.owner[l] = t }

Advance(t) ==
  IF critSec.at[t].i = Len(LocksOf(critSec.at[t].op))
  THEN [critSec.at EXCEPT ![t] = [op |-> "None", i |-> 0]]
  ELSE [critSec.at EXCEPT ![t].i = @ + 1]

(* thread t calls op *)
BeginCall(t, op) ==
  /\ ~Running(t)
  /\ critSec' = [critSec EXCEPT !.at[t] = [op |-> op, i |-> 1]]

(* CriticalSectionScoped cs(_critSec): waits while another thread is inside *)
EnterCritSec(t) ==
  /\ Running(t)
  /\ NextStep(t).k = "enter"
  /\ critSec.owner[NextStep(t).l] \in {NoOwner, t}
  /\ critSec' = [critSec EXCEPT !.owner[NextStep(t).l] = t,
                                !.depth[NextStep(t).l] = @ + 1,
                                !.at = Advance(t)]

(* the end of the block *)
LeaveCritSec(t) ==
  /\ Running(t)
  /\ NextStep(t).k = "leave"
  /\ critSec' = [critSec EXCEPT
                   !.owner[NextStep(t).l] =
                      IF critSec.depth[NextStep(t).l] = 1 THEN NoOwner ELSE t,
                   !.depth[NextStep(t).l] = @ - 1,
                   !.at = Advance(t)]

(* _callback->OnSample: the proxy's OnSample takes no lock *)
CallOutReturns(t) ==
  /\ Running(t)
  /\ NextStep(t).k = "call"
  /\ critSec' = [critSec EXCEPT !.at = Advance(t)]

NextCritSec ==
  \/ \E t \in CritSecThreads, op \in CallerOps \cup {"OnDispatchWorkItem"} :
       /\ op \in OpsOf(t)
       /\ BeginCall(t, op)
       /\ UNCHANGED << streamVars, msVars, getEvent, proxy >>
  \/ \E t \in CritSecThreads :
       EnterCritSec(t) /\ UNCHANGED << streamVars, msVars, getEvent, proxy >>
  \/ \E t \in CritSecThreads :
       LeaveCritSec(t) /\ UNCHANGED << streamVars, msVars, getEvent, proxy >>
  \/ \E t \in CritSecThreads :
       CallOutReturns(t)
       /\ UNCHANGED << streamVars, msVars, getEvent, proxy >>

SpecCritSec == InitProxy /\ [][NextCritSec]_vars

(***************************************************************************)
(* Properties                                                              *)
(***************************************************************************)
IsSample(i) == out[i].k = "sample"
IsEvent(i, met) == out[i].k = "event" /\ out[i].v = met
WorkerIdle == pc[Worker] = "idle"

(* the state x operation table as the specification lists it *)
TableValid(st) ==
  IF st = State_TypeNotSet THEN {OpSetMediaType}
  ELSE IF st = State_Ready THEN {OpSetMediaType, OpStart, OpPause, OpStop}
  ELSE IF st = State_Started THEN Ops \ {OpRestart}
  ELSE IF st = State_Paused THEN Ops
  ELSE {OpSetMediaType, OpStart, OpStop}

TableResult(st, op) ==
  IF op \in TableValid(st) THEN S_OK
  ELSE IF st = State_TypeNotSet THEN MF_E_NOT_INITIALIZED
  ELSE MF_E_INVALIDREQUEST

OpOfCall(name) ==
  IF name = "Start" THEN OpStart
  ELSE IF name = "Stop" THEN OpStop
  ELSE IF name = "Pause" THEN OpPause
  ELSE IF name = "Restart" THEN OpRestart
  ELSE IF name = "ProcessSample" THEN OpProcessSample
  ELSE OpSetMediaType

(* C1: ValidateOperation returns S_OK exactly for the pairs the table marks
   valid, MF_E_NOT_INITIALIZED for every other pair in State_TypeNotSet and
   MF_E_INVALIDREQUEST for every other pair elsewhere; and that is what
   Start, Stop, Pause, Restart and ProcessSample return on a sink that is
   not shut down. *)
C1_ValidateMatchesTable ==
  /\ \A st \in States, op \in Ops :
       ValidateOperation(st, op) = TableResult(st, op)
  /\ ( /\ lastCall.call \in {"Start", "Stop", "Pause", "Restart",
                             "ProcessSample"}
       /\ ~lastCall.shut0
       /\ lastCall.hr # E_INVALIDARG )
     => lastCall.hr = TableResult(lastCall.st0, OpOfCall(lastCall.call))

C1_Witness ==
  /\ lastCall.call = "Restart"
  /\ lastCall.st0 = State_Started
  /\ lastCall.hr = MF_E_INVALIDREQUEST

(* C2: after a sample delivered by a ProcessSample work item, that work item
   emits at most one MEStreamSinkRequestSample before the next sample is
   delivered, and exactly one when it delivered into an empty queue in
   State_Started. *)
RequestsAfter(i) ==
  Cardinality({ j \in DOMAIN out :
                  /\ j > i
                  /\ IsEvent(j, MEStreamSinkRequestSample)
                  /\ out[j].tag = out[i].tag
                  /\ \A m \in DOMAIN out : (i < m /\ m < j) => ~IsSample(m) })

C2_OneRequestPerDrain ==
  \A i \in DOMAIN out :
    (IsSample(i) /\ out[i].op = OpProcessSample) => RequestsAfter(i) <= 1

(* C3: the samples handed to OnSample are handed over in the order in which
   ProcessSample accepted them, none of them twice. *)
C3_DeliveredInPushOrder ==
  \A i, j \in DOMAIN out :
    (IsSample(i) /\ IsSample(j) /\ i < j) => out[i].id < out[j].id

(* C4: a sample is delivered under the media type that was current when it
   was pushed: a media type set after the push is not yet the current type
   when the sample reaches OnSample. *)
C4_FormatAppliedInOrder ==
  \A i \in DOMAIN out :
    (IsSample(i) /\ out[i].mt # Null) => out[i].mt = pushedType[out[i].id]

(* C5: no sample is handed to OnSample while _state is State_Paused. *)
C5_NoDeliveryWhilePaused ==
  \A i \in DOMAIN out : IsSample(i) => out[i].st # State_Paused

(* C6: a ProcessSample that returns S_OK appended exactly the sample to the
   queue; called in State_Paused it put no work item, called in
   State_Started it put exactly one OpProcessSample work item. *)
C6_PushSchedulesUnlessPaused ==
  (lastCall.call = "ProcessSample" /\ SUCCEEDED(lastCall.hr))
  => /\ Len(lastCall.dq) = 1
     /\ lastCall.dq[1].kind = "sample"
     /\ lastCall.st0 = State_Paused => lastCall.dwq = << >>
     /\ lastCall.st0 = State_Started => lastCall.dwq = << OpProcessSample >>

C6_Witness ==
  /\ lastCall.call = "ProcessSample"
  /\ SUCCEEDED(lastCall.hr)
  /\ lastCall.st0 = State_Paused
  /\ lastCall.dwq = << >>
  /\ Len(sampleQueue) > 0

(* C7: a sample taken from the queue by the public Flush or by the worker's
   OpStop work item is never handed to OnSample. *)
C7_FlushedSamplesDiscarded ==
  \A i \in DOMAIN out :
    IsSample(i) => (out[i].by # Flusher /\ out[i].op # OpStop)

(* C8: a Stop that returns S_OK on a sink that is not shut down leaves
   _state = State_Stopped, and once its work item has run with no call
   after the Stop, MEStreamSinkStopped has been sent and the sample queue
   is empty. *)
C8_StopEndsStoppedAndEmpty ==
  /\ (lastCall.call = "Stop" /\ SUCCEEDED(lastCall.hr))
     => lastCall.st1 = State_Stopped
  /\ ( /\ lastCall.call = "Stop"
       /\ SUCCEEDED(lastCall.hr)
       /\ WorkerIdle
       /\ cur.op = OpStop
       /\ cur.tag = lastCall.tag )
     => /\ cur.evs = << MEStreamSinkStopped >>
        /\ Len(sampleQueue) = 0

(* C9 as stated: an OpStart or OpRestart work item sends MEStreamSinkStarted
   first and sends MEStreamSinkRequestSample afterwards exactly when its
   drain found the queue empty. *)
C9_RequestOnlyIfQueueWasEmpty ==
  (WorkerIdle /\ cur.op \in {OpStart, OpRestart} /\ ~isShutdown)
  => /\ Len(cur.evs) >= 1
     /\ cur.evs[1] = MEStreamSinkStarted
     /\ (cur.evs = << MEStreamSinkStarted, MEStreamSinkRequestSample >>)
          <=> cur.empty0
     /\ ~cur.empty0 => cur.evs = << MEStreamSinkStarted >>

(* C9 amended: an OpStart or OpRestart work item sends MEStreamSinkStarted
   first and, unless the sink is shut down, exactly one
   MEStreamSinkRequestSample after its drain, whether or not the drain found
   the queue empty; a Start that returns S_OK leaves _state =
   State_Started. *)
C9_StartedThenOneRequest ==
  /\ cur.op \in {OpStart, OpRestart}
     => /\ cur.evs \in { << >>, << MEStreamSinkStarted >>,
                         << MEStreamSinkStarted, MEStreamSinkRequestSample >> }
        /\ (WorkerIdle /\ ~isShutdown)
           => cur.evs = << MEStreamSinkStarted, MEStreamSinkRequestSample >>
  /\ (lastCall.call \in {"Start", "Restart"} /\ SUCCEEDED(lastCall.hr))
     => lastCall.st1 = State_Started

C9_Witness ==
  /\ WorkerIdle
  /\ cur.op = OpRestart
  /\ ~cur.empty0
  /\ cur.n >= 1
  /\ cur.evs = << MEStreamSinkStarted, MEStreamSinkRequestSample >>

(* C10: when Pause, ProcessSample(s2) and Restart return S_OK one after the
   other starting in State_Started, _state is State_Started again, s2 has
   not been handed to OnSample before the Restart returned, and s2 is
   handed to OnSample before any MEStreamSinkRequestSample that follows the
   MEStreamSinkStarted of that Restart. *)
PauseRestartScenario(n) ==
  /\ n >= 3
  /\ n <= Len(calls)
  /\ calls[n - 2].call = "Pause"
  /\ calls[n - 2].st0 = State_Started
  /\ calls[n - 1].call = "ProcessSample"
  /\ calls[n].call = "Restart"

C10_BufferedSampleFirstAfterRestart ==
  /\ (lastCall.call = "Restart" /\ SUCCEEDED(lastCall.hr))
     => lastCall.st1 = State_Started
  /\ \A n \in DOMAIN calls :
       PauseRestartScenario(n)
       => /\ calls[n - 1].id \notin calls[n].seen
          /\ \A i, j \in DOMAIN out :
               ( /\ i < j
                 /\ IsEvent(i, MEStreamSinkStarted)
                 /\ out[i].tag = calls[n].tag
                 /\ IsEvent(j, MEStreamSinkRequestSample) )
               => \E m \in 1 .. (j - 1) :
                    IsSample(m) /\ out[m].id = calls[n - 1].id

(* C11: under fair scheduling of the worker, a sample that ProcessSample
   accepted in State_Started is eventually handed to OnSample, unless a
   Stop, a Flush or a Shutdown was called after that ProcessSample. *)
PushedInStarted(i) ==
  \E n \in DOMAIN calls :
    /\ calls[n].call = "ProcessSample"
    /\ calls[n].id = i
    /\ calls[n].st0 = State_Started

InterruptedAfterPush(i) ==
  \E n, m \in DOMAIN calls :
    /\ n < m
    /\ calls[n].call = "ProcessSample"
    /\ calls[n].id = i
    /\ calls[m].call \in {"Stop", "Flush", "Shutdown"}

C11_PushedSampleEventuallyDelivered ==
  \A i \in 1 .. MaxSamples :
    PushedInStarted(i) ~> (i \in Delivered \/ InterruptedAfterPush(i))

(* C12: _state is State_TypeNotSet exactly as long as no SetCurrentMediaType
   has returned S_OK; the SetCurrentMediaType that returns S_OK in
   State_TypeNotSet leaves State_Ready, one that returns S_OK in any other
   state leaves _state as it was; and no step takes _state back to
   State_TypeNotSet. *)
TypeWasSet ==
  \E n \in DOMAIN calls : calls[n].call = "SetCurrentMediaType"

C12_ReadyAfterFirstType ==
  /\ [](state = State_TypeNotSet <=> ~TypeWasSet)
  /\ []((lastCall.call = "SetCurrentMediaType" /\ SUCCEEDED(lastCall.hr))
         => lastCall.st1 = IF lastCall.st0 = State_TypeNotSet
                           THEN State_Ready ELSE lastCall.st0)
  /\ [][state # State_TypeNotSet => state' # State_TypeNotSet]_vars

C12_Witness ==
  /\ lastCall.call = "SetCurrentMediaType"
  /\ SUCCEEDED(lastCall.hr)
  /\ lastCall.st0 = State_Paused
  /\ state = State_Paused

(* C13: a Start, Restart, Pause, Stop or ProcessSample that ValidateOperation
   rejects (MF_E_NOT_INITIALIZED or MF_E_INVALIDREQUEST) changes none of
   _state, _sampleQueue, _spCurrentType and the work queue; Start in
   State_TypeNotSet returns MF_E_NOT_INITIALIZED. *)
RejectedByValidation(c) ==
  /\ c.call \in {"Start", "Restart", "Pause", "Stop", "ProcessSample"}
  /\ c.hr \in {MF_E_NOT_INITIALIZED, MF_E_INVALIDREQUEST}

C13_RejectedCallChangesNothing ==
  /\ [][(lastCall' # lastCall /\ RejectedByValidation(lastCall'))
        => UNCHANGED << state, sampleQueue, spCurrentType, guiCurrentSubtype,
                        workQueue >>]_vars
  /\ [](RejectedByValidation(lastCall)
         => (lastCall.st1 = lastCall.st0 /\ lastCall.st1 = state
             /\ lastCall.dq = << >> /\ lastCall.dwq = << >>))
  /\ []((lastCall.call = "Start" /\ lastCall.st0 = State_TypeNotSet)
         => (lastCall.hr = MF_E_NOT_INITIALIZED
             /\ state = State_TypeNotSet))

C13_Witness ==
  /\ lastCall.call = "Pause"
  /\ lastCall.st0 = State_Stopped
  /\ lastCall.hr = MF_E_INVALIDREQUEST
  /\ workQueue # << >>

(* C14: called with a sample or a media type after Shutdown, each of
   SetCurrentMediaType, Start, Stop, Pause, Restart, ProcessSample and Flush
   returns MF_E_SHUTDOWN, leaves _state and _sampleQueue as they were and
   puts no work item. *)
C14_ShutdownErrorAfterShutdown ==
  ( /\ lastCall.shut0
    /\ lastCall.call \in {"SetCurrentMediaType", "Start", "Stop", "Pause",
                           "Restart", "ProcessSample", "Flush"}
    /\ lastCall.hr # E_INVALIDARG )
  => /\ lastCall.hr = MF_E_SHUTDOWN
     /\ lastCall.st1 = lastCall.st0
     /\ lastCall.dq = << >>
     /\ lastCall.dwq = << >>

(* C15: once Shutdown has returned, no event is queued and no sample is
   handed to OnSample, whichever work item is running. *)
C15_NothingLeavesAfterShutdown ==
  [][isShutdown => out' = out]_vars

(* C16: in every state after Shutdown _isShutdown is set, _sampleQueue is
   empty and _spCurrentType is released, whatever is called afterwards; a
   second Shutdown returns S_OK and changes nothing of the sink. *)
C16_ShutdownStateStays ==
  /\ [](isShutdown => (sampleQueue = << >> /\ spCurrentType = Null))
  /\ [][isShutdown => isShutdown']_vars
  /\ [][(isShutdown /\ nShutdown' > nShutdown)
        => (lastCall'.call = "Shutdown" /\ lastCall'.hr = S_OK
            /\ UNCHANGED << sinkVars, workQueue, out >>)]_vars

C16_Witness ==
  /\ isShutdown
  /\ lastCall.call = "Shutdown"
  /\ lastCall.shut0
  /\ Len(pushedType) = 1
  /\ Delivered = {}
  /\ \E n \in DOMAIN calls : calls[n].call = "Flush" \/ calls[n].call = "Pause"

(* C17: however many calls of the media sink's Shutdown there are, one after
   the other or at the same time, _callback->OnShutdown is called exactly
   once, by the call that found the sink not shut down; a call that finds
   it shut down changes nothing. *)
NotifyPending == Cardinality({ t \in MsCallers : msPc[t] = "notify" })

C17_OnShutdownOnce ==
  /\ [](msIsShutdown => nOnShutdown + NotifyPending = 1)
  /\ [](~msIsShutdown => (nOnShutdown = 0 /\ NotifyPending = 0))
  /\ [][(msIsShutdown /\ nMsShutdown' > nMsShutdown)
        => (NotifyPending' = NotifyPending
            /\ UNCHANGED << msIsShutdown, spStreamSink, spClock, clockSinks,
                            callback, nOnShutdown, streamVars >>)]_vars

C17_Witness ==
  /\ nMsShutdown = 2
  /\ nOnShutdown = 1
  /\ \A t \in MsCallers : msPc[t] = "idle"
  /\ msLastCall.call = "Shutdown"
  /\ isShutdown

(* C18: whatever state the media sink is in, with a stream sink or without
   one, its Shutdown returns S_OK and leaves the media sink shut down. *)
C18_ShutdownReturnsOk ==
  msLastCall.call = "Shutdown"
  => (msLastCall.hr = S_OK /\ msIsShutdown /\ msState = "initialized")

(* C19: once the first Shutdown of the media sink has returned, no clock
   holds the media sink as a state sink, and its stream sink is shut down
   with an empty sample queue. *)
C19_UnregisteredAfterShutdown ==
  (msIsShutdown /\ \A t \in MsCallers : msPc[t] = "idle")
  => /\ clockSinks = {}
     /\ spStreamSink # NoStream => (isShutdown /\ sampleQueue = << >>)

(* C20: AddStreamSink with an id other than GetStreamId() returns
   MF_E_INVALIDSTREAMNUMBER, constructs no stream sink and leaves
   _spStreamSink and the stream sink it points to as they were. *)
C20_AddStreamSinkWrongId ==
  [][(nMs' > nMs /\ msLastCall'.call = "AddStreamSink"
      /\ msLastCall'.arg.id # GetStreamId)
     => (msLastCall'.hr = MF_E_INVALIDSTREAMNUMBER
         /\ nStreams' = nStreams
         /\ UNCHANGED << spStreamSink, sinkVars, workQueue >>)]_vars

(* what a call of the media sink may change of the media sink itself, and
   of the stream sink it owns *)
mediaSinkState == << msState, msIsShutdown, spStreamSink, spClock, callback,
                     llStartTime, clockSinks, nOnShutdown, nStreams >>

streamSinkState == << sinkVars, workQueue, out >>

MsReturned(names) == nMs' > nMs /\ msLastCall'.call \in names

AddStreamSinkAccepted ==
  /\ MsReturned({"AddStreamSink"})
  /\ msLastCall'.arg.id = GetStreamId
  /\ ~msIsShutdown

FormatApplies(mt) == mt = Null \/ mt.sub # NoSubtype

(* C21: on a media sink that is not shut down, AddStreamSink with the id
   GetStreamId() returns MF_E_STREAMSINK_EXISTS and leaves the stream sink
   as it is while one is owned.  With none owned it constructs one; when
   the media type given is set on it (or none is given) the call returns
   S_OK, the new stream sink is _spStreamSink and its state is Ready with
   the type, TypeNotSet without; when setting the type fails the call
   returns that error and no stream sink is owned. *)
C21_AddStreamSinkAcceptedId ==
  [][AddStreamSinkAccepted
     => IF spStreamSink # NoStream
        THEN /\ msLastCall'.hr = MF_E_STREAMSINK_EXISTS
             /\ nStreams' = nStreams
             /\ UNCHANGED << spStreamSink, streamSinkState >>
        ELSE /\ nStreams' = nStreams + 1
             /\ IF FormatApplies(msLastCall'.arg.mt)
                THEN /\ msLastCall'.hr = S_OK
                     /\ spStreamSink' = Stream
                     /\ ~isShutdown'
                     /\ spCurrentType' = msLastCall'.arg.mt
                     /\ state' = IF msLastCall'.arg.mt = Null
                                 THEN State_TypeNotSet ELSE State_Ready
                ELSE /\ msLastCall'.hr = MF_E_ATTRIBUTENOTFOUND
                     /\ spStreamSink' = NoStream]_vars

C21_Witness ==
  /\ msLastCall.call = "AddStreamSink"
  /\ msLastCall.hr = S_OK
  /\ msLastCall.arg.mt # Null
  /\ ~msIsShutdown
  /\ nStreams = 1
  /\ spStreamSink = Stream
  /\ state = State_Ready

(* C21 as the text has it: with no stream sink owned, every AddStreamSink
   with the id GetStreamId() leaves a stream sink owned, Ready with the
   type given and TypeNotSet without. *)
C21_AddStreamSinkAlwaysOwns ==
  [][AddStreamSinkAccepted
     => IF spStreamSink # NoStream
        THEN /\ msLastCall'.hr = MF_E_STREAMSINK_EXISTS
             /\ nStreams' = nStreams
             /\ UNCHANGED << spStreamSink, streamSinkState >>
        ELSE /\ nStreams' = nStreams + 1
             /\ spStreamSink' = Stream
             /\ state' = IF msLastCall'.arg.mt = Null
                         THEN State_TypeNotSet ELSE State_Ready]_vars

(* C22: once the media sink is shut down, AddStreamSink, RemoveStreamSink,
   GetStreamSinkCount, GetStreamSinkById, SetPresentationClock, OnClockStart
   and OnClockStop return MF_E_SHUTDOWN, construct no stream sink and
   change neither the media sink nor its stream sink. *)
C22_ShutdownErrorFromMediaSink ==
  [][(msIsShutdown
      /\ MsReturned({"AddStreamSink", "RemoveStreamSink",
                     "GetStreamSinkCount", "GetStreamSinkById",
                     "SetPresentationClock", "OnClockStart", "OnClockStop"}))
     => (msLastCall'.hr = MF_E_SHUTDOWN
         /\ UNCHANGED << mediaSinkState, streamSinkState >>)]_vars

(* C23: on a media sink that is not shut down, RemoveStreamSink with an id
   other than GetStreamId() returns MF_E_INVALIDSTREAMNUMBER and changes
   nothing; with the id GetStreamId() it returns S_OK, and the stream sink
   owned, if there is one, is shut down with an empty sample queue when
   the call returns. *)
C23_RemoveStreamSink ==
  [][(MsReturned({"RemoveStreamSink"}) /\ ~msIsShutdown)
     => IF msLastCall'.arg # GetStreamId
        THEN /\ msLastCall'.hr = MF_E_INVALIDSTREAMNUMBER
             /\ UNCHANGED << mediaSinkState, streamSinkState >>
        ELSE /\ msLastCall'.hr = S_OK
             /\ spStreamSink # NoStream
                => (isShutdown' /\ sampleQueue' = << >>)]_vars

C23_Witness ==
  /\ msLastCall.call = "RemoveStreamSink"
  /\ msLastCall.arg = GetStreamId
  /\ msLastCall.hr = S_OK
  /\ spStreamSink = Stream
  /\ isShutdown
  /\ Len(pushedType) = 1
  /\ Delivered = {}

(* C24: OnClockPause and OnClockRestart return
   MF_E_INVALID_STATE_TRANSITION whatever the state, and change neither the
   media sink nor the state, the sample queue or the work items of the
   stream sink. *)
C24_ClockPauseRestartRejected ==
  [][MsReturned({"OnClockPause", "OnClockRestart"})
     => (msLastCall'.hr = MF_E_INVALID_STATE_TRANSITION
         /\ UNCHANGED << mediaSinkState, streamVars >>)]_vars

C24_Witness ==
  /\ msLastCall.call = "OnClockPause"
  /\ msLastCall.hr = MF_E_INVALID_STATE_TRANSITION
  /\ ~msIsShutdown
  /\ state = State_Started

(* C25: on a media sink that is not shut down and owns a stream sink,
   OnClockStart returns what the stream sink's Start returned and
   OnClockStop what its Stop returned. *)
C25_ClockStartStopResult ==
  [][(MsReturned({"OnClockStart", "OnClockStop"}) /\ ~msIsShutdown
      /\ spStreamSink # NoStream)
     => (lastCall'.call = (IF msLastCall'.call = "OnClockStart"
                           THEN "Start" ELSE "Stop")
         /\ msLastCall'.hr = lastCall'.hr)]_vars

(* C26: at every state at most one clock holds the media sink as state
   sink; while SetPresentationClock is between its two calls of the clocks
   no clock holds it; after SetPresentationClock(c) returned S_OK exactly
   c holds it (none when c is null). *)
C26_OneClock ==
  /\ [](Cardinality(clockSinks) <= 1)
  /\ [](msClockCall # NoClockCall => clockSinks = {})
  /\ []((msLastCall.call = "SetPresentationClock" /\ msLastCall.hr = S_OK
         /\ msClockCall = NoClockCall)
        => clockSinks = {msLastCall.arg} \ {NoClock})

C26_Witness ==
  /\ msClockCall = "clock2"
  /\ spClock = "clock1"
  /\ clockSinks = {}
  /\ msLastCall.call = "SetPresentationClock"
  /\ msLastCall.arg = "clock1"

LifecycleEvents ==
  { MEStreamSinkStarted, MEStreamSinkPaused, MEStreamSinkStopped }

IsLifecycleEvent(i) == out[i].k = "event" /\ out[i].v \in LifecycleEvents

EventOfCall(name) ==
  IF name \in {"Start", "Restart"} THEN MEStreamSinkStarted
  ELSE IF name = "Pause" THEN MEStreamSinkPaused
  ELSE MEStreamSinkStopped

(* C27: the work items are executed one at a time in the order in which
   they were put: the items still queued were put after the one the worker
   executes, in order; each MEStreamSinkStarted, MEStreamSinkPaused and
   MEStreamSinkStopped is the event of an accepted Start/Restart, Pause or
   Stop and is sent by the worker while it executes the work item of that
   call; and these events leave in the order in which their calls were
   accepted. *)
C27_WorkItemsInOrder ==
  /\ \A m, n \in DOMAIN calls :
       (m < n /\ calls[m].tag # 0 /\ calls[n].tag # 0)
       => calls[m].tag < calls[n].tag
  /\ \A i \in DOMAIN workQueue :
       /\ cur.tag < workQueue[i].tag
       /\ \A j \in DOMAIN workQueue : i < j
            => workQueue[i].tag < workQueue[j].tag
  /\ \A i \in DOMAIN out : IsLifecycleEvent(i)
       => /\ out[i].by = Worker
          /\ \E n \in DOMAIN calls :
               /\ calls[n].tag = out[i].tag
               /\ EventOfCall(calls[n].call) = out[i].v
  /\ \A i, j \in DOMAIN out :
       (i < j /\ IsLifecycleEvent(i) /\ IsLifecycleEvent(j))
       => out[i].tag < out[j].tag

C27_Witness ==
  \E i, j, k \in DOMAIN out :
    /\ i < j /\ j < k
    /\ IsEvent(i, MEStreamSinkStarted)
    /\ IsEvent(j, MEStreamSinkPaused)
    /\ IsEvent(k, MEStreamSinkStopped)

(* C29: whenever a sample is handed to _callback->OnSample, by the worker
   in its ProcessSample cycle or in the drain of a Start, Restart or Stop,
   or by the caller of Flush, no thread holds _critSec. *)
C29_NoLockAtOnSample ==
  [][(Len(out') > Len(out) /\ out'[Len(out')].k = "sample")
     => lock = "none"]_vars

(* the tags that work items can carry *)
WorkTags == 1 .. (MaxSamples + MaxTypes + MaxCtl)

WorkPut(k) == \E i \in DOMAIN workQueue : workQueue[i].tag = k

(* C28: when the work item the worker executed threw and the sink is not
   shut down, the worker has sent an MEError event that carries the
   HRESULT thrown; no public call and no GetEvent returned that HRESULT;
   and every work item on the queue is taken by the worker later on, after
   a failure as well (unless the sink is shut down first). *)
C28_FailedWorkItem ==
  /\ []((pc[Worker] = "idle" /\ cur.hr # S_OK /\ ~isShutdown)
        => \E i \in DOMAIN out :
             /\ out[i].v = MEError
             /\ out[i].hr = cur.hr
             /\ out[i].tag = cur.tag
             /\ out[i].by = Worker)
  /\ [](lastCall.hr \notin {E_FAIL, E_UNEXPECTED}
        /\ getEvent.hr \notin {E_FAIL, E_UNEXPECTED})
  /\ \A k \in WorkTags : WorkPut(k) ~> (cur.tag >= k \/ isShutdown)

C28_Witness ==
  /\ ~isShutdown
  /\ pc[Worker] = "idle"
  /\ cur.hr = S_OK
  /\ cur.evs # << >>
  /\ \E i \in DOMAIN out : out[i].v = MEError /\ out[i].tag < cur.tag

(* C30: a GetEvent that returns when the sink is shut down returns
   MF_E_SHUTDOWN, whether Shutdown ran before the call, while it waited or
   after its wait had ended. *)
C30_GetEventAfterShutdown ==
  [][(getEvent.pc = "return" /\ getEvent'.pc = "idle" /\ isShutdown)
     => getEvent.hr = MF_E_SHUTDOWN]_vars

(* C32: while the worker executes an OpProcessSample or OpSetMediaType
   work item it hands at most one sample to _callback->OnSample, however
   many items the sample queue holds. *)
C32_DrainOne ==
  cur.op \in {OpProcessSample, OpSetMediaType} => cur.n <= 1

(* C33: every MEStreamSinkRequestSample is sent while _state is
   State_Started, also by a work item that was put before a Pause or Stop
   was accepted. *)
C33_RequestOnlyWhenStarted ==
  \A i \in DOMAIN out :
    IsEvent(i, MEStreamSinkRequestSample) => out[i].st = State_Started

(* C34: a SetCurrentMediaType that returns S_OK in State_Started or
   State_Paused appends exactly one media type behind the items queued and
   puts one OpSetMediaType work item when started, none when paused; one
   that returns S_OK in State_Ready appends nothing and puts nothing. *)
C34_FormatChangeSchedules ==
  (lastCall.call = "SetCurrentMediaType" /\ lastCall.hr = S_OK)
  => /\ lastCall.st0 \in {State_Started, State_Paused}
        => /\ Len(lastCall.dq) = 1
           /\ lastCall.dq[1].kind = "type"
           /\ lastCall.dwq = IF lastCall.st0 = State_Started
                             THEN << OpSetMediaType >> ELSE << >>
     /\ lastCall.st0 = State_Ready
        => (lastCall.dq = << >> /\ lastCall.dwq = << >>)

(* C36: on a sink that is not shut down and has reached State_Ready, a
   SetCurrentMediaType either returns S_OK with a type of the current
   subtype, or fails and leaves the current type, the subtype, _state, the
   sample queue and the work queue as they were; the failure of a type
   that was given is MF_E_INVALIDTYPE.  So _guiCurrentSubtype never
   changes once the sink is ready. *)
C36_SubtypeNeverChanges ==
  /\ [][(state >= State_Ready /\ ~isShutdown)
        => guiCurrentSubtype' = guiCurrentSubtype]_vars
  /\ [][(state >= State_Ready /\ ~isShutdown /\ lastCall' # lastCall
         /\ lastCall'.call = "SetCurrentMediaType")
        => \/ /\ lastCall'.hr = S_OK
              /\ spCurrentType'.sub = guiCurrentSubtype
           \/ /\ lastCall'.hr \in {MF_E_INVALIDTYPE, E_INVALIDARG}
              /\ UNCHANGED << spCurrentType, guiCurrentSubtype, state,
                              sampleQueue, workQueue >>]_vars

C36_Witness ==
  /\ lastCall.call = "SetCurrentMediaType"
  /\ lastCall.hr = MF_E_INVALIDTYPE
  /\ lastCall.st0 = State_Started
  /\ ~isShutdown
  /\ spCurrentType.major = MFMediaType_Video
  /\ guiCurrentSubtype = "NV12"

(* C35: when Start, Restart, Pause or ProcessSample returns the error of a
   put on the work queue that failed, _state and the sample queue are as
   they were before the call. *)
C35_PutFailureLeavesState ==
  (lastCall.call \in {"Start", "Restart", "Pause", "ProcessSample"}
   /\ lastCall.hr = E_OUTOFMEMORY)
  => (lastCall.st1 = lastCall.st0 /\ lastCall.dq = << >>)

(* C37: ValidateOperation is never executed on a stream sink that has been
   shut down: the assert(!_isShutdown) at its head holds at every call that
   reaches it, also for Start, Stop, Pause and Restart invoked after
   Shutdown. *)
C37_ValidateNeverAfterShutdown ==
  ~assertFailed

(* C39: RemoveStreamSink does not detach the stream sink.  Once a
   RemoveStreamSink with the id GetStreamId() has returned S_OK on a media
   sink that owned a stream sink, the media sink still holds that stream
   sink, shut down; the next GetStreamSinkById with that id returns S_OK,
   and the next AddStreamSink with that id returns
   MF_E_STREAMSINK_EXISTS and constructs nothing. *)
C39_RemoveKeepsStreamSink ==
  [][(/\ msLastCall.call = "RemoveStreamSink"
      /\ msLastCall.arg = GetStreamId
      /\ msLastCall.hr = S_OK
      /\ isShutdown
      /\ nMs' > nMs)
     => /\ (msLastCall'.call = "GetStreamSinkById"
            /\ msLastCall'.arg = GetStreamId)
           => (msLastCall'.hr = S_OK /\ spStreamSink' = Stream)
        /\ (msLastCall'.call = "AddStreamSink"
            /\ msLastCall'.arg.id = GetStreamId)
           => (msLastCall'.hr = MF_E_STREAMSINK_EXISTS
               /\ nStreams' = nStreams)]_vars

(* C38: no destructor assertion fails: a stream sink or media sink that is
   destroyed was shut down before.  AddStreamSink and RuntimeClassInitialize,
   which release the stream sinks they discard or replace and leave a media
   sink whose initialisation failed to be destroyed, never violate an
   assert. *)
C38_DestroyedAfterShutdown ==
  [][(\/ MsReturned({"AddStreamSink"})
      \/ (msState = "constructed" /\ msState' # msState))
     => assertFailed' = assertFailed]_vars

(* C31: InitializeAsync of the proxy returns MF_E_SHUTDOWN once OnShutdown
   has run, and MF_E_ALREADY_INITIALIZED while the proxy holds a media sink;
   in both cases it constructs nothing and changes neither the media sink
   nor the proxy.  OnShutdown sets _shutdown, which is never reset, and
   clears _mediaSink; no InitializeAsync after it returns S_OK. *)
ProxyInitializeReturns == Len(proxy'.calls) > Len(proxy.calls)

C31_ProxyInitialize ==
  /\ [][(ProxyInitializeReturns /\ proxy.shutdown)
        => (/\ proxy'.calls[Len(proxy'.calls)] = MF_E_SHUTDOWN
            /\ UNCHANGED << msVars, streamVars >>
            /\ proxy'.mediaSink = proxy.mediaSink)]_vars
  /\ [][(ProxyInitializeReturns /\ ~proxy.shutdown
         /\ proxy.mediaSink # NoMediaSink)
        => (/\ proxy'.calls[Len(proxy'.calls)] = MF_E_ALREADY_INITIALIZED
            /\ UNCHANGED << msVars, streamVars >>
            /\ proxy'.mediaSink = proxy.mediaSink)]_vars
  /\ [][nOnShutdown' > nOnShutdown
        => (proxy'.shutdown /\ proxy'.mediaSink = NoMediaSink)]_vars
  /\ [][proxy.shutdown
        => (proxy'.shutdown /\ proxy'.mediaSink = NoMediaSink)]_vars

C31_Witness ==
  /\ proxy.shutdown
  /\ nOnShutdown = 1
  /\ proxy.calls = << S_OK, MF_E_ALREADY_INITIALIZED, MF_E_SHUTDOWN >>
  /\ nStreams = 1

(* C40: a thread enters a critical section only while it is inside none that
   comes later in the order proxy, media sink, stream sink; and the threads
   never wait for each other in a circle: while some call is running, some
   running thread can take its next step. *)
CritSecRank(l) ==
  IF l = ProxyLock THEN 1 ELSE IF l = MediaSinkLock THEN 2 ELSE 3

Waits(t) ==
  /\ Running(t)
  /\ NextStep(t).k = "enter"
  /\ critSec.owner[NextStep(t).l] \notin {NoOwner, t}

C40_LockOrder ==
  /\ [][\A t \in CritSecThreads, l \in CritSecs :
          (critSec.owner[l] # t /\ critSec'.owner[l] = t)
          => \A h \in Owned(t) : CritSecRank(h) < CritSecRank(l)]_vars
  /\ []((\E t \in CritSecThreads : Running(t))
        => \E t \in CritSecThreads : Running(t) /\ ~Waits(t))

C40_Witness ==
  /\ critSec.at["c1"].op = "InitializeAsync"
  /\ Owned("c1") = {ProxyLock}
  /\ Waits("c1")
  /\ critSec.at["c2"].op = "Shutdown"
  /\ Owned("c2") = {MediaSinkLock}
  /\ Waits("c2")
  /\ Owned(Worker) = {StreamSinkLock}

====
